---------------------------- MODULE Spec2Model ----------------------------
(***************************************************************************)
(* Model of the frame distribution server of the repository:               *)
(* StreamingHandler / StreamingServer of V1.X.X/Ableton/MaxShowmotion.py   *)
(* (duplicated in MaxShowDepth.py with other default ports).               *)
(*                                                                         *)
(* Threads of the program:                                                 *)
(*   owner   the thread that calls start(), update_frame(), stop()         *)
(*   http    Thread(target=server.serve_forever): one thread that accepts  *)
(*           and handles every HTTP request (HTTPServer, not threading)    *)
(*   tcp     Thread(target=_tcp_accept_loop): accept loop + send loop      *)
(* Environment: HTTP clients, TCP clients (jit.net.recv), the ports, the   *)
(* virtual camera device, the frames handed to update_frame().             *)
(***************************************************************************)
EXTENDS Integers, Sequences, FiniteSets, TLC

\* ------------------------------------------------------------------ bounds
MaxUpdates == 2       \* update_frame() calls made by the owner
MaxStops == 2         \* stop() calls made by the owner
MaxHttpClients == 2   \* HTTP connections opened over a run
MaxTcpConns == 2      \* TCP connections opened over a run

\* ------------------------------------------------- constructor parameters
max_width == 640
max_height == 480

HttpClients == 1..MaxHttpClients
TcpConns == 1..MaxTcpConns
Paths == {"/stream", "/frame.jpg", "/other"}

\* A frame handed to update_frame(): its shape (frame.shape[:2]).
Frames == {[w |-> 640, h |-> 480], [w |-> 1280, h |-> 720]}

\* Frame shapes around the bound max_width x max_height: smaller, equal,
\* one more, larger, and sizes whose scale factor is not exact in binary
\* floating point.
Widths == {1, 2, 320, 640, 641, 1077, 1280, 1920}
Heights == {1, 2, 240, 480, 481, 537, 720, 1080}
ShapeFrames == [w : Widths, h : Heights]

NoFrame == [id |-> 0, len |-> 0]
NoPacket == [id |-> 0, header |-> <<>>, width |-> 0, height |-> 0, type_code |-> 0,
             planecount |-> 0, data_len |-> 0, len |-> 0]
NoCall == [w |-> 0, h |-> 0]

\* ---------------------------------------------------------------- codecs
\* cv.imencode('.jpg', frame, [IMWRITE_JPEG_QUALITY, 85]).tobytes(): the
\* bytes object published as server.frame_bytes.  Only two things of it are
\* observable here: which object it is (id: the update_frame() call that
\* made it) and its length, a function of the frame.
JpegLen(f) == 600 + (f.w * f.h) \div 8

EncodeJpeg(f, n) == [id |-> n, len |-> JpegLen(f)]

\* ScaledDims without the test of line 155: every frame is resized to fit
\* the bound, a smaller one enlarged.
ScaledDimsAlways(f) ==
    IF max_width * f.h <= max_height * f.w
    THEN [w |-> (f.w * max_width) \div f.w, h |-> (f.h * max_width) \div f.w]
    ELSE [w |-> (f.w * max_height) \div f.h, h |-> (f.h * max_height) \div f.h]

\* The pairs <<x, bound>> among the shapes above for which the double
\* product x * (bound / x) is below bound: the quotient is rounded down and
\* the product is not rounded back up (640 / 1077 and 480 / 537).
ProductShort == {<<1077, 640>>, <<537, 480>>}

\* int(x * (bound / by)) as Python computes it: the quotient and the
\* product are doubles, int() truncates.  For the shapes above the result
\* is the exact floor, except for the pairs of ProductShort.
ScaleInt(x, bound, by) ==
    IF x = by /\ <<x, bound>> \in ProductShort
    THEN bound - 1
    ELSE (x * bound) \div by

\* scale = min(max_width / width, max_height / height);
\* new_width = int(width * scale); new_height = int(height * scale)
ScaledDims(f) ==
    IF f.w > max_width \/ f.h > max_height
    THEN IF max_width * f.h <= max_height * f.w
         THEN [w |-> ScaleInt(f.w, max_width, f.w), h |-> ScaleInt(f.h, max_width, f.w)]
         ELSE [w |-> ScaleInt(f.w, max_height, f.h), h |-> ScaleInt(f.h, max_height, f.h)]
    ELSE [w |-> f.w, h |-> f.h]

\* planes = 3; type_code = struct.pack('<i', 1).
planes == 3
type_code == 1

\* matrix_data = rgb_frame.tobytes(): cvtColor(frame, COLOR_BGR2RGB) of an
\* 8-bit frame has three bytes per pixel, rows without padding.
MatrixDataLen(d) == d.h * d.w * 3

\* matrix_name = b''; name_len = len(matrix_name); dimcount = 2.
name_len == 0
dimcount == 2

\* Pack32 with the bytes in network order ('>i').
Pack32BigEndian(v) ==
    <<(v \div 16777216) % 256, (v \div 65536) % 256, (v \div 256) % 256, v % 256>>

\* struct.pack('<i', v) for 0 <= v < 2^31: four bytes, least significant
\* first.
Pack32(v) ==
    <<v % 256, (v \div 256) % 256, (v \div 65536) % 256, (v \div 16777216) % 256>>

\* struct.pack('<i', name_len) + b'' + struct.pack('<i', 2) + dims +
\* type_code + planecount + matrix_data: six int32 fields, then the pixels.
PacketHeaderLen == 24

PackHeader(d) ==
    Pack32(name_len) \o Pack32(dimcount) \o Pack32(d.w) \o Pack32(d.h)
        \o Pack32(type_code) \o Pack32(planes)

\* The packet: its header bytes, the length of matrix_data and of the
\* whole; width, height, type_code and planecount repeat what was packed.
BuildPacket(f, n) ==
    LET d == ScaledDims(f)
    IN  [id |-> n, header |-> PackHeader(d), width |-> d.w, height |-> d.h,
         type_code |-> type_code, planecount |-> planes,
         data_len |-> MatrixDataLen(d),
         len |-> Len(PackHeader(d)) + name_len + MatrixDataLen(d)]

VARIABLES
    \* --- environment
    httpPortFree,      \* the HTTP port can be bound
    tcpPortFree,       \* the TCP port can be bound
    camAvailable,      \* pyvirtualcam.Camera(...) succeeds
    faultable,         \* steps of update_frame() that can raise in this run
    \* --- fields of StreamingServer
    server,            \* self.server: "None" | "up"
    http_socket,       \* self.server.socket: "None" | "listening" | "closed"
    frame_bytes,       \* self.server.frame_bytes (NoFrame: attribute absent)
    shutdown_request,  \* HTTPServer's shutdown flag
    is_shut_down,      \* HTTPServer's "serve_forever has left" event
    tcp_socket,        \* self.tcp_socket: "None" | "listening" | "closed"
    tcp_client,        \* self.tcp_client: 0 (None) or the connection
    latest_frame_data, \* self.latest_frame_data (NoPacket: None)
    frame_count,       \* self.frame_count
    use_virtual_cam,   \* self.use_virtual_cam
    virtual_cam,       \* self.virtual_cam: "None" | "open" | "closed"
    \* --- owner thread
    pcMain,            \* where the owner is
    startState,        \* "no" | "ok" | "raised": how start() ended
    nUpdates,          \* update_frame() calls begun
    nStops,            \* stop() calls begun
    stopsReturned,     \* stop() calls returned
    uFrame,            \* frame of the current / last update_frame() call
    uRan,              \* steps the current / last call has run ("publish": line 127)
    uFailed,           \* steps of it that raised
    uRaised,           \* the call ended by raising to the caller
    uPrevJpeg,         \* frame_bytes when the call began
    uPrevPacket,       \* latest_frame_data when the call began
    uEarlierFailed,    \* an earlier call had a failing step
    fileFails,         \* calls in which cv.imwrite raised
    fileReports,       \* times "Failed to save local file" was printed
    \* --- http thread
    pcH,               \* where serve_forever / the handler is
    hCur,              \* client whose request is being handled (0: none)
    hLen,              \* the Content-Length header just sent
    hc,                \* per client: "idle" | "pending" | "active" | "gone" | "answered"
    hpath,             \* per client: the path it requested
    hstatus,           \* per client: status line received (0: none yet)
    lastPart,          \* last frame body delivered: [cl, body]
    \* --- tcp thread
    pcT,               \* where _tcp_accept_loop is
    tAccepted,         \* connection returned by accept(), not yet stored
    tconn,             \* per connection: "idle" | "pending" | "open" | "peer_closed" | "closed"
    lastSent,          \* per connection: id of the packet last sent to it
    dupSent,           \* some packet was sent twice to one connection
    tickSent,          \* the last tick of the send loop sent a packet
    \* --- module state of motiontask, and its caller
    feed,              \* the hand data the camera loop delivers: "none" | "moving" | "posing"
    hand_history,      \* per hand id: its deque of palm positions
    hand_order,        \* the keys of hand_history in insertion order
    hand_labels,       \* per hand id: the label last seen (NoLabel: key absent)
    hand_gestures,     \* per hand id: the gesture last stored (NoGesture: key absent)
    last_action_time,  \* per key: time of the last action (NoTime: key absent)
    current_motion,    \* per key: the overlay text (NoMotion: key absent)
    now,               \* the clock when the last call returned, in tenths of a second
    checkedAt,         \* per key of current_motion: the time its expiry test read (NoTime: not tested)
    nCalls,            \* process_hand_data() calls made
    data,              \* argument of the last process_hand_data() call
    latest,            \* per hand id: the argument of its last call
    emitted,           \* osc_callback invocations of the last call, in order
    sent,              \* OSC messages send_action sent in the last call, in order
    lastEmit,          \* per key: time of the last osc_callback invocation for it
    sinceSwipe,        \* per hand id: its calls since its last track-swipe action
    emitGap,           \* per key acted on in the last call: time since its previous action
    \* --- ParticleEffects: the particle server, its threads and clients
    wsPortFree,        \* the WebSocket port can be bound
    pagePortFree,      \* the HTTP port of the page server can be bound
    running,           \* ParticleWebSocketHandler.running
    loop,              \* ParticleWebSocketHandler.loop: "absent" | "running" | "finished"
    clients,           \* ParticleWebSocketHandler.clients
    pcWs,              \* the server thread: "not_started" | "starting" | "serving" | "failed"
    wsPeer,            \* per browser: "idle" | "connected" | "closed"
    pcStart,           \* ParticleSystemServer.start(): "idle" | "waiting" | "http" | "done" | "raised"
    polls,             \* time.sleep(0.1) calls of the readiness wait
    http_server,       \* ParticleSystemServer.http_server: "None" | "up"
    pageFailureReported, \* the HTTP start failure was printed
    pcUpd,             \* update_hand_data(): "idle" | "iterating"
    nParticleUpdates,  \* update_hand_data() calls begun
    iterSize,          \* size of the set when the iteration began
    iterDirty,         \* the set was changed since the iteration began
    visited,           \* clients the iteration has passed
    updRaised,         \* update_hand_data() raised RuntimeError
    \* --- main.collect_hand_data_for_particles
    particle_hand_data_list, \* the list, each entry [hand_id, values]
    hand_data_timestamps,    \* per hand id: time of its last report (NoTime: key absent)
    lockHeld,          \* particle_hand_data_lock is held
    collectNow,        \* current_time of the last call (line 100), in tenths of a second
    nCollects,         \* collect_hand_data_for_particles() calls made
    hand_info,         \* the entry the last call built from its argument
    lastReport,        \* per hand id: current_time of the last call made for it
    handedList,        \* the list update_particle_hand_data was last called with
    handedUnderLock,   \* the lock was held when that list was copied
    \* --- main.person_coord_smoother
    smoothed,          \* <<smoothed_x, smoothed_y, smoothed_z>>, NoPoint while they are None
    initialized,       \* CoordinateSmoother.initialized
    nSmooths,          \* smooth() calls made
    smoothIn,          \* the argument of the last smooth() call
    smoothOut,         \* what the last smooth() call returned
    \* --- MaxShowDepth.OAKDepthStreamer, the owner of a StreamingServer
    viewerStarts,      \* environment: viewer.start() finds the OAK device
    viewerStarted,     \* what viewer.start() returned: "unknown" | "ok" | "failed"
    streamerRunning,   \* OAKDepthStreamer.running
    pcRun,             \* position of run()
    startReturned,     \* what OAKDepthStreamer.start() returned: "none" | "true" | "false"
    leftBy             \* how run() left its frame loop: "none" | "interrupt" | "exception"

envVars == <<httpPortFree, tcpPortFree, camAvailable, faultable>>
srvVars == <<server, http_socket, frame_bytes, shutdown_request, is_shut_down, tcp_socket,
             tcp_client, latest_frame_data, frame_count, use_virtual_cam, virtual_cam>>
mainVars == <<pcMain, startState, nUpdates, nStops, stopsReturned>>
callVars == <<uFrame, uRan, uFailed, uRaised, uPrevJpeg, uPrevPacket, uEarlierFailed,
              fileFails, fileReports>>
httpVars == <<pcH, hCur, hLen, hc, hpath, hstatus, lastPart>>
tcpVars == <<pcT, tAccepted, tconn, lastSent, dupSent, tickSent>>
motionVars == <<feed, hand_history, hand_order, hand_labels, hand_gestures, last_action_time,
                current_motion, now, checkedAt, nCalls, data, latest, emitted, sent, lastEmit, sinceSwipe, emitGap>>
particleVars == <<wsPortFree, pagePortFree, running, loop, clients, pcWs, wsPeer, pcStart,
                  polls, http_server, pageFailureReported, pcUpd, nParticleUpdates,
                  iterSize, iterDirty, visited, updRaised>>
listVars == <<particle_hand_data_list, hand_data_timestamps, lockHeld, collectNow, nCollects,
              hand_info, lastReport, handedList, handedUnderLock>>
serverVars == <<envVars, srvVars, mainVars, callVars, httpVars, tcpVars>>
\* What the actions of one part of the program leave alone.
smoothVars == <<smoothed, initialized, nSmooths, smoothIn, smoothOut>>
depthVars == <<viewerStarts, viewerStarted, streamerRunning, pcRun, startReturned, leftBy>>
nonServerVars == <<motionVars, particleVars, listVars, smoothVars, depthVars>>
nonMotionVars == <<serverVars, particleVars, listVars, smoothVars, depthVars>>
nonParticleVars == <<serverVars, motionVars, listVars, smoothVars, depthVars>>
nonListVars == <<serverVars, motionVars, particleVars, smoothVars, depthVars>>
nonSmoothVars == <<serverVars, motionVars, particleVars, listVars, depthVars>>
nonDepthVars == <<serverVars, motionVars, particleVars, listVars, smoothVars>>
vars == <<serverVars, nonServerVars>>

MaxWsClients == 2
MaxParticleUpdates == 2
WsClients == 1 .. MaxWsClients

\* ParticleWebSocketHandler.__init__ (lines 10-15) and
\* ParticleSystemServer.__init__ (lines 171-176); no browser has connected.
ParticleInit ==
    /\ running = FALSE
    /\ loop = "absent"
    /\ clients = {}
    /\ pcWs = "not_started"
    /\ wsPeer = [c \in WsClients |-> "idle"]
    /\ pcStart = "idle"
    /\ polls = 0
    /\ http_server = "None"
    /\ pageFailureReported = FALSE
    /\ pcUpd = "idle"
    /\ nParticleUpdates = 0
    /\ iterSize = 0
    /\ iterDirty = FALSE
    /\ visited = {}
    /\ updRaised = FALSE

\* A run that never starts the particle server.
ParticleIdle == ParticleInit /\ wsPortFree = TRUE /\ pagePortFree = TRUE

\* ---------------------------------------------------------------------------
\* motiontask: module state.  Times are in tenths of a second, palm
\* coordinates in hundredths of the frame.

\* GetMediaPipe.py line 24: hand ids are the indexes 0 and 1.
max_num_hands == 2
HandIds == 0 .. (max_num_hands - 1)

NoLabel == "absent"
NoGesture == "absent"
NoMotion == "absent"
NoTime == -1
NoData == [hand_id |-> -1, hand_label |-> NoLabel, palm |-> <<0, 0>>, gesture |-> NoGesture]

\* The keys of last_action_time: a hand id, and the three named timers.
PerKey(hands, other) ==
    [hand |-> hands, left_gesture |-> other, right_gesture |-> other, both_holding |-> other]

\* The keys of current_motion: a hand id, "left", "right" and "both".
PerMotion(hands, other) ==
    [hand |-> hands, left |-> other, right |-> other, both |-> other]

\* time.time() when the module is imported.
Epoch == 100

\* motiontask.py lines 5-10, before the first process_hand_data() call;
\* main.py line 89 has installed send_action as osc_callback.
MotionInit ==
    /\ hand_history = [h \in HandIds |-> <<>>]
    /\ hand_order = <<>>
    /\ hand_labels = [h \in HandIds |-> NoLabel]
    /\ hand_gestures = [h \in HandIds |-> NoGesture]
    /\ last_action_time = PerKey([h \in HandIds |-> NoTime], NoTime)
    /\ current_motion = PerMotion([h \in HandIds |-> NoMotion], NoMotion)
    /\ now = Epoch
    /\ checkedAt = PerMotion([h \in HandIds |-> NoTime], NoTime)
    /\ nCalls = 0
    /\ data = NoData
    /\ latest = [h \in HandIds |-> NoData]
    /\ emitted = <<>>
    /\ sent = <<>>
    /\ lastEmit = PerKey([h \in HandIds |-> NoTime], NoTime)
    /\ sinceSwipe = [h \in HandIds |-> 0]
    /\ emitGap = PerKey([h \in HandIds |-> NoTime], NoTime)

\* A run in which the camera loop never calls process_hand_data().
MotionIdle == MotionInit /\ feed = "none"

\* A run of the StreamingServer alone.
\* main.py 90-93: the module's list, timestamps and lock before any hand was reported.
NoInfo == [hand_id |-> -1, openness |-> 0]
ListInit ==
    /\ particle_hand_data_list = <<>>
    /\ hand_data_timestamps = [h \in HandIds |-> NoTime]
    /\ lockHeld = FALSE
    /\ collectNow = Epoch
    /\ nCollects = 0
    /\ hand_info = NoInfo
    /\ lastReport = [h \in HandIds |-> NoTime]
    /\ handedList = <<>>
    /\ handedUnderLock = FALSE
\* main.py 9-15, 49: person_coord_smoother as constructed.
NoPoint == <<>>
SmootherInit ==
    /\ smoothed = NoPoint
    /\ initialized = FALSE
    /\ nSmooths = 0
    /\ smoothIn = NoPoint
    /\ smoothOut = NoPoint
\* MaxShowDepth.py 208-212: OAKDepthStreamer as constructed, run() not yet called.
StreamerInit ==
    /\ viewerStarted = "unknown"
    /\ streamerRunning = FALSE
    /\ pcRun = "idle"
    /\ startReturned = "none"
    /\ leftBy = "none"
\* A process without an OAKDepthStreamer.
StreamerIdle == StreamerInit /\ viewerStarts = FALSE
ServerOnly == MotionIdle /\ ParticleIdle /\ ListInit /\ SmootherInit /\ StreamerIdle

UpdateSteps == {"encode", "file", "cam", "packet"}

\* The environment the process runs in, and the use_virtual_cam argument.
EnvAny ==
    /\ httpPortFree \in BOOLEAN
    /\ tcpPortFree \in BOOLEAN
    /\ use_virtual_cam \in BOOLEAN
    /\ camAvailable \in (IF use_virtual_cam THEN BOOLEAN ELSE {FALSE})
    /\ faultable = UpdateSteps

\* StreamingServer.__init__, lines 43-61, and the threads and clients
\* before start().
ServerInit ==
    /\ server = "None"
    /\ http_socket = "None"
    /\ frame_bytes = NoFrame
    /\ shutdown_request = FALSE
    /\ is_shut_down = FALSE
    /\ tcp_socket = "None"
    /\ tcp_client = 0
    /\ latest_frame_data = NoPacket
    /\ frame_count = 0
    /\ virtual_cam = "None"
    /\ pcMain = "idle"
    /\ startState = "no"
    /\ nUpdates = 0
    /\ nStops = 0
    /\ stopsReturned = 0
    /\ uFrame = NoCall
    /\ uRan = {}
    /\ uFailed = {}
    /\ uRaised = FALSE
    /\ uPrevJpeg = NoFrame
    /\ uPrevPacket = NoPacket
    /\ uEarlierFailed = FALSE
    /\ fileFails = 0
    /\ fileReports = 0
    /\ pcH = "not_started"
    /\ hCur = 0
    /\ hLen = 0
    /\ hc = [c \in HttpClients |-> "idle"]
    /\ hpath = [c \in HttpClients |-> "/other"]
    /\ hstatus = [c \in HttpClients |-> 0]
    /\ lastPart = [cl |-> 0, body |-> NoFrame]
    /\ pcT = "not_started"
    /\ tAccepted = 0
    /\ tconn = [k \in TcpConns |-> "idle"]
    /\ lastSent = [k \in TcpConns |-> 0]
    /\ dupSent = FALSE
    /\ tickSent = FALSE

Init == EnvAny /\ ServerInit /\ ServerOnly

\* Whether a step of update_frame() may raise: never, or either way.
Outcomes(step) == IF step \in faultable THEN BOOLEAN ELSE {TRUE}


\* ------------------------------------------------------------ owner thread
\* start(), lines 64-66: HTTPServer(('localhost', port), StreamingHandler)
\* binds and listens in its constructor; serve_forever runs in one thread.
StartHttp ==
    /\ server' = "up"
    /\ http_socket' = "listening"
    /\ pcH' = "serve"

\* StartCam with except branches that only print: the flag stays set after
\* the camera could not be created.
StartCamKeepsFlag ==
    IF use_virtual_cam /\ camAvailable
    THEN virtual_cam' = "open" /\ use_virtual_cam' = use_virtual_cam
    ELSE UNCHANGED <<virtual_cam, use_virtual_cam>>

\* start(), lines 72-85: the optional virtual camera.
StartCam ==
    IF use_virtual_cam
    THEN IF camAvailable
         THEN virtual_cam' = "open" /\ use_virtual_cam' = use_virtual_cam
         ELSE virtual_cam' = virtual_cam /\ use_virtual_cam' = FALSE
    ELSE UNCHANGED <<virtual_cam, use_virtual_cam>>

\* StartTcp with the except branch forgetting "self.tcp_socket = None" and
\* the thread started before the bind.
StartTcpKeepsSocket ==
    IF tcpPortFree
    THEN tcp_socket' = "listening" /\ pcT' = "loop"
    ELSE tcp_socket' = "closed" /\ pcT' = "loop"

\* start(), lines 87-98: the TCP listener and its accept-loop thread; any
\* exception is caught and leaves self.tcp_socket = None.
StartTcp ==
    IF tcpPortFree
    THEN tcp_socket' = "listening" /\ pcT' = "loop"
    ELSE tcp_socket' = "None" /\ pcT' = pcT

\* start(): the HTTPServer constructor is outside every try: a bind failure
\* leaves start() at line 64 by raising.
Start ==
    /\ pcMain = "idle"
    /\ startState = "no"
    /\ nStops = 0
    /\ IF httpPortFree
       THEN /\ StartHttp
            /\ StartCam
            /\ StartTcp
            /\ startState' = "ok"
       ELSE /\ startState' = "raised"
            /\ UNCHANGED <<server, http_socket, pcH, virtual_cam, use_virtual_cam,
                           tcp_socket, pcT>>
    /\ UNCHANGED <<nonServerVars, envVars, frame_bytes, shutdown_request, is_shut_down, tcp_client,
                   latest_frame_data, frame_count, pcMain, nUpdates, nStops,
                   stopsReturned, callVars, hCur, hLen, hc, hpath, hstatus, lastPart,
                   tAccepted, tconn, lastSent, dupSent, tickSent>>

\* UpdateEncode without the test of line 126: the JPEG is published whether
\* or not start() has created the server.
UpdateEncodeNoGuard(f, encOk) ==
    /\ uFrame' = f
    /\ uRan' = {"encode"} \cup (IF encOk THEN {"publish"} ELSE {})
    /\ uPrevJpeg' = frame_bytes
    /\ uPrevPacket' = latest_frame_data
    /\ uEarlierFailed' = (uEarlierFailed \/ uFailed # {})
    /\ nUpdates' = nUpdates + 1
    /\ frame_bytes' = IF encOk THEN EncodeJpeg(f, nUpdates + 1) ELSE frame_bytes
    /\ uFailed' = IF encOk THEN {} ELSE {"encode"}
    /\ uRaised' = ~encOk
    /\ pcMain' = IF encOk THEN "u_rest" ELSE "idle"

\* UpdateEncode publishing the buffer before the encoder is known to have
\* succeeded: a failed encode leaves an empty buffer published.
UpdateEncodeTorn(f, encOk) ==
    /\ uFrame' = f
    /\ uRan' = {"encode"} \cup (IF encOk /\ server = "up" THEN {"publish"} ELSE {})
    /\ uPrevJpeg' = frame_bytes
    /\ uPrevPacket' = latest_frame_data
    /\ uEarlierFailed' = (uEarlierFailed \/ uFailed # {})
    /\ nUpdates' = nUpdates + 1
    /\ frame_bytes' = IF server = "up"
                      THEN [id |-> nUpdates + 1, len |-> IF encOk THEN JpegLen(f) ELSE 0]
                      ELSE frame_bytes
    /\ uFailed' = IF encOk THEN {} ELSE {"encode"}
    /\ uRaised' = ~encOk
    /\ pcMain' = IF encOk THEN "u_rest" ELSE "idle"

\* update_frame(), lines 123-127: encode, then publish if the HTTP server
\* object exists.  cv.imencode is outside every try: when it raises, the
\* call ends there.
UpdateEncode(f, encOk) ==
    /\ uFrame' = f
    /\ uRan' = {"encode"} \cup (IF encOk /\ server = "up" THEN {"publish"} ELSE {})
    /\ uPrevJpeg' = frame_bytes
    /\ uPrevPacket' = latest_frame_data
    /\ uEarlierFailed' = (uEarlierFailed \/ uFailed # {})
    /\ nUpdates' = nUpdates + 1
    /\ IF encOk
       THEN /\ frame_bytes' = IF server = "up" THEN EncodeJpeg(f, nUpdates + 1)
                                               ELSE frame_bytes
            /\ uFailed' = {}
            /\ uRaised' = FALSE
            /\ pcMain' = "u_rest"
       ELSE /\ frame_bytes' = frame_bytes
            /\ uFailed' = {"encode"}
            /\ uRaised' = TRUE
            /\ pcMain' = "idle"

\* update_frame(frame) is called with a frame of the set S.
UpdateFrom(S) ==
    /\ pcMain = "idle"
    /\ nStops = 0
    /\ nUpdates < MaxUpdates
    /\ \E f \in S, encOk \in Outcomes("encode") : UpdateEncode(f, encOk)
    /\ UNCHANGED <<fileFails, fileReports>>
    /\ UNCHANGED <<nonServerVars, envVars, http_socket, server, shutdown_request, is_shut_down, tcp_socket,
                   tcp_client, latest_frame_data, frame_count, use_virtual_cam,
                   virtual_cam, startState, nStops, stopsReturned, httpVars, tcpVars>>

UpdateBegin == UpdateFrom(Frames)

\* update_frame(), lines 137-149: the push runs when the camera is in use.
CamStepRuns == use_virtual_cam /\ virtual_cam # "None"

\* update_frame(), lines 151-184: build the packet and publish it; any
\* exception (cvtColor, resize to an empty size, ...) is caught and leaves
\* latest_frame_data and frame_count as they were.
PacketBuilt(pktOk) ==
    LET d == ScaledDims(uFrame)
    IN  pktOk /\ d.w >= 1 /\ d.h >= 1

PacketStep(pktOk) ==
    IF PacketBuilt(pktOk)
    THEN /\ latest_frame_data' = BuildPacket(uFrame, nUpdates)
         /\ frame_count' = frame_count + 1
    ELSE UNCHANGED <<latest_frame_data, frame_count>>

\* UpdateRest publishing the packet under a lock that the handler and the
\* send loop hold while they write: the producer waits for a client's write.
UpdateRestWaitsForWrite ==
    /\ pcMain = "u_rest"
    /\ pcH \notin {"stream_body", "snap_body"}
    /\ pcT # "send"
    /\ \E fileOk \in Outcomes("file"),
          camOk \in (IF CamStepRuns THEN Outcomes("cam") ELSE {TRUE}),
          pktOk \in Outcomes("packet") :
          /\ PacketStep(pktOk)
          /\ uRan' = uRan \cup {"file", "packet"}
                          \cup (IF CamStepRuns THEN {"cam"} ELSE {})
          /\ uFailed' = (IF fileOk THEN {} ELSE {"file"})
                        \cup (IF camOk THEN {} ELSE {"cam"})
                        \cup (IF PacketBuilt(pktOk) THEN {} ELSE {"packet"})
          /\ fileFails' = fileFails + (IF fileOk THEN 0 ELSE 1)
          /\ fileReports' = fileReports
                               + (IF ~fileOk /\ frame_count = 0 THEN 1 ELSE 0)
    /\ pcMain' = "idle"
    /\ UNCHANGED <<nonServerVars, envVars, http_socket, server, frame_bytes, shutdown_request, is_shut_down,
                   tcp_socket, tcp_client, use_virtual_cam, virtual_cam, startState,
                   nUpdates, nStops, stopsReturned, uFrame, uRaised, uPrevJpeg,
                   uPrevPacket, uEarlierFailed, httpVars, tcpVars>>

\* update_frame(), lines 129-184: file write, camera push, packet, each in
\* its own try/except.  The file step prints its failure while frame_count,
\* which only the packet step advances, is 0 (lines 133-135).
UpdateRest ==
    /\ pcMain = "u_rest"
    /\ \E fileOk \in Outcomes("file"),
          camOk \in (IF CamStepRuns THEN Outcomes("cam") ELSE {TRUE}),
          pktOk \in Outcomes("packet") :
          /\ PacketStep(pktOk)
          /\ uRan' = uRan \cup {"file", "packet"}
                          \cup (IF CamStepRuns THEN {"cam"} ELSE {})
          /\ uFailed' = (IF fileOk THEN {} ELSE {"file"})
                        \cup (IF camOk THEN {} ELSE {"cam"})
                        \cup (IF PacketBuilt(pktOk) THEN {} ELSE {"packet"})
          /\ fileFails' = fileFails + (IF fileOk THEN 0 ELSE 1)
          /\ fileReports' = fileReports
                               + (IF ~fileOk /\ frame_count = 0 THEN 1 ELSE 0)
    /\ pcMain' = "idle"
    /\ UNCHANGED <<nonServerVars, envVars, http_socket, server, frame_bytes, shutdown_request, is_shut_down,
                   tcp_socket, tcp_client, use_virtual_cam, virtual_cam, startState,
                   nUpdates, nStops, stopsReturned, uFrame, uRaised, uPrevJpeg,
                   uPrevPacket, uEarlierFailed, httpVars, tcpVars>>

\* StopBegin with a shutdown() that waits for a fresh event: it clears the
\* event serve_forever set when it left its loop.
StopBeginClearsEvent ==
    /\ pcMain = "idle"
    /\ nStops < MaxStops
    /\ nStops' = nStops + 1
    /\ IF server = "up"
       THEN shutdown_request' = TRUE /\ is_shut_down' = FALSE /\ pcMain' = "s_wait"
       ELSE UNCHANGED <<shutdown_request, is_shut_down>> /\ pcMain' = "s_tcp_client"
    /\ UNCHANGED <<nonServerVars, envVars, http_socket, server, frame_bytes, tcp_socket, tcp_client,
                   latest_frame_data, frame_count, use_virtual_cam, virtual_cam,
                   startState, nUpdates, stopsReturned, callVars, httpVars, tcpVars>>

\* stop(), lines 187-188: server.shutdown() sets the shutdown flag and then
\* waits until serve_forever has left its loop.
StopBegin ==
    /\ pcMain = "idle"
    /\ nStops < MaxStops
    /\ nStops' = nStops + 1
    /\ IF server = "up"
       THEN shutdown_request' = TRUE /\ pcMain' = "s_wait"
       ELSE shutdown_request' = shutdown_request /\ pcMain' = "s_tcp_client"
    /\ UNCHANGED <<nonServerVars, envVars, http_socket, server, frame_bytes, is_shut_down, tcp_socket, tcp_client,
                   latest_frame_data, frame_count, use_virtual_cam, virtual_cam,
                   startState, nUpdates, stopsReturned, callVars, httpVars, tcpVars>>

\* stop(), line 188: shutdown() returns once the event is set.
StopWait ==
    /\ pcMain = "s_wait"
    /\ is_shut_down
    /\ pcMain' = "s_tcp_client"
    /\ UNCHANGED <<nonServerVars, envVars, srvVars, startState, nUpdates, nStops, stopsReturned,
                   callVars, httpVars, tcpVars>>

\* StopTcpClient forgetting the client after closing it
\* (self.tcp_client = None).
StopTcpClientClears ==
    /\ pcMain = "s_tcp_client"
    /\ tconn' = IF tcp_client # 0
                THEN [tconn EXCEPT ![tcp_client] = "closed"]
                ELSE tconn
    /\ tcp_client' = 0
    /\ pcMain' = "s_tcp_socket"
    /\ UNCHANGED <<nonServerVars, envVars, server, http_socket, frame_bytes, shutdown_request,
                   is_shut_down, tcp_socket, latest_frame_data, frame_count,
                   use_virtual_cam, virtual_cam, startState, nUpdates, nStops,
                   stopsReturned, callVars, httpVars, pcT, tAccepted, lastSent,
                   dupSent, tickSent>>

\* stop(), lines 189-193: close the client the field names, if any.
StopTcpClient ==
    /\ pcMain = "s_tcp_client"
    /\ tconn' = IF tcp_client # 0
                THEN [tconn EXCEPT ![tcp_client] = "closed"]
                ELSE tconn
    /\ pcMain' = "s_tcp_socket"
    /\ UNCHANGED <<nonServerVars, envVars, srvVars, startState, nUpdates, nStops, stopsReturned,
                   callVars, httpVars, pcT, tAccepted, lastSent, dupSent, tickSent>>

\* stop(), lines 194-203: close the listening socket and the camera; the
\* fields keep naming the closed objects.
StopTcpSocket ==
    /\ pcMain = "s_tcp_socket"
    /\ tcp_socket' = IF tcp_socket # "None" THEN "closed" ELSE tcp_socket
    /\ virtual_cam' = IF virtual_cam # "None" THEN "closed" ELSE virtual_cam
    /\ stopsReturned' = stopsReturned + 1
    /\ pcMain' = "idle"
    /\ UNCHANGED <<nonServerVars, envVars, http_socket, server, frame_bytes, shutdown_request, is_shut_down,
                   tcp_client, latest_frame_data, frame_count, use_virtual_cam,
                   startState, nUpdates, nStops, callVars, httpVars, tcpVars>>

\* ------------------------------------------------------------- http thread
\* The handler returns (or its exception ends the request): the server
\* closes the connection and serve_forever goes on.
HandlerReturn ==
    /\ hc' = [hc EXCEPT ![hCur] = IF @ = "active" THEN "answered" ELSE @]
    /\ hCur' = 0
    /\ hLen' = 0
    /\ pcH' = "serve"

\* serve_forever notices the shutdown flag between two requests, leaves its
\* loop, resets the flag and sets the event shutdown() waits on.
HttpServeExit ==
    /\ pcH = "serve"
    /\ shutdown_request
    /\ pcH' = "exited"
    /\ shutdown_request' = FALSE
    /\ is_shut_down' = TRUE
    /\ UNCHANGED <<nonServerVars, envVars, http_socket, server, frame_bytes, tcp_socket, tcp_client,
                   latest_frame_data, frame_count, use_virtual_cam, virtual_cam,
                   mainVars, callVars, hCur, hLen, hc, hpath, hstatus, lastPart,
                   tcpVars>>

\* HttpDispatch taking "a frame was handed to update_frame()" for "the
\* server has a frame": /frame.jpg answers 200 after an update_frame() call
\* made before start().
HttpDispatchAnyUpdate(c) ==
    /\ pcH = "serve"
    /\ ~shutdown_request
    /\ hc[c] = "pending"
    /\ \A d \in HttpClients : d < c => hc[d] # "pending"
    /\ IF hpath[c] = "/stream"
       THEN /\ hstatus' = [hstatus EXCEPT ![c] = 200]
            /\ hc' = [hc EXCEPT ![c] = "active"]
            /\ hCur' = c
            /\ hLen' = 0
            /\ pcH' = "stream_loop"
       ELSE IF hpath[c] = "/frame.jpg" /\ nUpdates > 0
       THEN /\ hstatus' = [hstatus EXCEPT ![c] = 200]
            /\ hc' = [hc EXCEPT ![c] = "active"]
            /\ hCur' = c
            /\ hLen' = frame_bytes.len
            /\ pcH' = "snap_body"
       ELSE /\ hstatus' = [hstatus EXCEPT ![c] = 404]
            /\ hc' = [hc EXCEPT ![c] = "answered"]
            /\ UNCHANGED <<hCur, hLen, pcH>>
    /\ UNCHANGED <<nonServerVars, envVars, srvVars, mainVars, callVars, hpath, lastPart, tcpVars>>

\* do_GET, lines 8-12 and 24-37: serve_forever accepts the request that
\* waits longest and runs the handler in this same thread.  /stream: 200 and the multipart
\* header, then the loop.  /frame.jpg: 404 without a frame, else 200 with
\* Content-Length = len(self.server.frame_bytes) (the first read).
HttpDispatch(c) ==
    /\ pcH = "serve"
    /\ ~shutdown_request
    /\ hc[c] = "pending"
    /\ \A d \in HttpClients : d < c => hc[d] # "pending"
    /\ IF hpath[c] = "/stream"
       THEN /\ hstatus' = [hstatus EXCEPT ![c] = 200]
            /\ hc' = [hc EXCEPT ![c] = "active"]
            /\ hCur' = c
            /\ hLen' = 0
            /\ pcH' = "stream_loop"
       ELSE IF hpath[c] = "/frame.jpg" /\ frame_bytes # NoFrame
       THEN /\ hstatus' = [hstatus EXCEPT ![c] = 200]
            /\ hc' = [hc EXCEPT ![c] = "active"]
            /\ hCur' = c
            /\ hLen' = frame_bytes.len
            /\ pcH' = "snap_body"
       ELSE /\ hstatus' = [hstatus EXCEPT ![c] = 404]
            /\ hc' = [hc EXCEPT ![c] = "answered"]
            /\ UNCHANGED <<hCur, hLen, pcH>>
    /\ UNCHANGED <<nonServerVars, envVars, srvVars, mainVars, callVars, hpath, lastPart, tcpVars>>

\* do_GET, line 31: self.wfile.write(self.server.frame_bytes), the second
\* read of the field.  A write to a client that has gone raises; the request
\* ends either way.
SnapBody ==
    /\ pcH = "snap_body"
    /\ lastPart' = IF hc[hCur] = "active"
                   THEN [cl |-> hLen, body |-> frame_bytes]
                   ELSE lastPart
    /\ HandlerReturn
    /\ UNCHANGED <<nonServerVars, envVars, srvVars, mainVars, callVars, hpath, hstatus, tcpVars>>

\* do_GET, line 13: while True: one more round of the /stream loop.
StreamLoop ==
    /\ pcH = "stream_loop"
    /\ pcH' = "stream_check"
    /\ UNCHANGED <<nonServerVars, envVars, srvVars, mainVars, callVars, hCur, hLen, hc, hpath,
                   hstatus, lastPart, tcpVars>>

\* do_GET, lines 14-19: if hasattr(self.server, 'frame_bytes'): with no
\* frame published the round ends without a write (and so without noticing
\* a client that has gone).  Else the boundary, then Content-Type and
\* Content-Length = len(self.server.frame_bytes) (the first read); a failed
\* write breaks the loop.
StreamHeader ==
    /\ pcH = "stream_check"
    /\ IF frame_bytes = NoFrame
       THEN /\ pcH' = "stream_loop"
            /\ UNCHANGED <<hc, hCur, hLen>>
       ELSE IF hc[hCur] = "active"
       THEN /\ hLen' = frame_bytes.len
            /\ pcH' = "stream_body"
            /\ UNCHANGED <<hc, hCur>>
       ELSE HandlerReturn
    /\ UNCHANGED <<nonServerVars, envVars, srvVars, mainVars, callVars, hpath, hstatus, lastPart,
                   tcpVars>>

\* StreamBody switching between two buffers: with nothing new since the
\* last part it writes the JPEG of before the last update_frame() call.
StreamBodyStale ==
    /\ pcH = "stream_body"
    /\ IF hc[hCur] = "active"
       THEN /\ lastPart' = [cl |-> hLen,
                            body |-> IF lastPart.body = frame_bytes /\ uPrevJpeg # NoFrame
                                     THEN uPrevJpeg
                                     ELSE frame_bytes]
            /\ pcH' = "stream_loop"
            /\ UNCHANGED <<hc, hCur, hLen>>
       ELSE /\ HandlerReturn
            /\ UNCHANGED lastPart
    /\ UNCHANGED <<nonServerVars, envVars, srvVars, mainVars, callVars, hpath, hstatus, tcpVars>>

\* do_GET, lines 20-23: self.wfile.write(self.server.frame_bytes) (the
\* second read), CRLF, and round again; a failed write breaks the loop.
StreamBody ==
    /\ pcH = "stream_body"
    /\ IF hc[hCur] = "active"
       THEN /\ lastPart' = [cl |-> hLen, body |-> frame_bytes]
            /\ pcH' = "stream_loop"
            /\ UNCHANGED <<hc, hCur, hLen>>
       ELSE /\ HandlerReturn
            /\ UNCHANGED lastPart
    /\ UNCHANGED <<nonServerVars, envVars, srvVars, mainVars, callVars, hpath, hstatus, tcpVars>>

\* An HTTP client connects to the bound port and sends GET p; the request
\* waits in the listen queue until serve_forever accepts it.
HttpConnect(c, p) ==
    /\ http_socket = "listening"
    /\ hc[c] = "idle"
    /\ IF c = 1 THEN TRUE ELSE hc[c - 1] # "idle"
    /\ hc' = [hc EXCEPT ![c] = "pending"]
    /\ hpath' = [hpath EXCEPT ![c] = p]
    /\ UNCHANGED <<nonServerVars, envVars, srvVars, mainVars, callVars, pcH, hCur, hLen, hstatus,
                   lastPart, tcpVars>>

\* The client being served closes its connection.
HttpDisconnect(c) ==
    /\ hc[c] = "active"
    /\ hc' = [hc EXCEPT ![c] = "gone"]
    /\ UNCHANGED <<nonServerVars, envVars, srvVars, mainVars, callVars, pcH, hCur, hLen, hpath,
                   hstatus, lastPart, tcpVars>>

\* -------------------------------------------------------------- tcp thread
PendingTcp == {k \in TcpConns : tconn[k] = "pending"}

\* _tcp_accept_loop, lines 101-104 and 115-120: while self.tcp_socket:
\* accept().  A closed listening socket makes accept() raise (break: the
\* thread ends); with nobody waiting accept() times out after 1 s (continue).
TcpAccept ==
    /\ pcT = "loop"
    /\ IF tcp_socket # "listening"
       THEN /\ pcT' = "exited"
            /\ UNCHANGED <<tAccepted, tconn>>
       ELSE IF PendingTcp # {}
       THEN LET k == CHOOSE x \in PendingTcp : \A y \in PendingTcp : x <= y
            IN  /\ tAccepted' = k
                /\ tconn' = [tconn EXCEPT ![k] = "open"]
                /\ pcT' = "assign"
       ELSE UNCHANGED <<pcT, tAccepted, tconn>>
    /\ UNCHANGED <<nonServerVars, envVars, srvVars, mainVars, callVars, httpVars, lastSent, dupSent, tickSent>>

\* _tcp_accept_loop, lines 105-106: self.tcp_client = client.
TcpAssign ==
    /\ pcT = "assign"
    /\ tcp_client' = tAccepted
    /\ tAccepted' = 0
    /\ pcT' = "send"
    /\ UNCHANGED <<nonServerVars, envVars, http_socket, server, frame_bytes, shutdown_request, is_shut_down,
                   tcp_socket, latest_frame_data, frame_count, use_virtual_cam,
                   virtual_cam, mainVars, callVars, httpVars, tconn, lastSent, dupSent, tickSent>>

\* TcpSend remembering what it sent: a tick sends only a packet that was
\* not yet sent to this client.
TcpSendOnlyNew ==
    /\ pcT = "send"
    /\ IF latest_frame_data = NoPacket \/ lastSent[tcp_client] = latest_frame_data.id
       THEN /\ pcT' = "sleep"
            /\ tickSent' = FALSE
            /\ UNCHANGED <<lastSent, dupSent>>
       ELSE IF tconn[tcp_client] = "open"
       THEN /\ lastSent' = [lastSent EXCEPT ![tcp_client] = latest_frame_data.id]
            /\ dupSent' = dupSent
            /\ tickSent' = TRUE
            /\ pcT' = "sleep"
       ELSE /\ pcT' = "loop"
            /\ tickSent' = FALSE
            /\ UNCHANGED <<lastSent, dupSent>>
    /\ UNCHANGED <<nonServerVars, envVars, srvVars, mainVars, callVars, httpVars, tAccepted, tconn>>

\* _tcp_accept_loop, lines 107-112: one tick of the send loop.  The field
\* tcp_client is never reset, so "while self.tcp_client" stays true; the
\* latest packet, if there is one, is sent whole; sendall on a connection
\* that either side has closed raises, which breaks out to the accept loop.
TcpSend ==
    /\ pcT = "send"
    /\ IF latest_frame_data = NoPacket
       THEN /\ pcT' = "sleep"
            /\ tickSent' = FALSE
            /\ UNCHANGED <<lastSent, dupSent>>
       ELSE IF tconn[tcp_client] = "open"
       THEN /\ lastSent' = [lastSent EXCEPT ![tcp_client] = latest_frame_data.id]
            /\ dupSent' = (dupSent \/ lastSent[tcp_client] = latest_frame_data.id)
            /\ tickSent' = TRUE
            /\ pcT' = "sleep"
       ELSE /\ pcT' = "loop"
            /\ tickSent' = FALSE
            /\ UNCHANGED <<lastSent, dupSent>>
    /\ UNCHANGED <<nonServerVars, envVars, srvVars, mainVars, callVars, httpVars, tAccepted, tconn>>

\* TcpSleep polling the listening socket between two ticks: a waiting
\* connection is accepted while the send loop runs for another client.
TcpSleepAccepts ==
    /\ pcT = "sleep"
    /\ pcT' = "send"
    /\ tconn' = IF PendingTcp # {}
                THEN [tconn EXCEPT ![CHOOSE x \in PendingTcp :
                                       \A y \in PendingTcp : x <= y] = "open"]
                ELSE tconn
    /\ UNCHANGED <<nonServerVars, envVars, srvVars, mainVars, callVars, httpVars, tAccepted,
                   lastSent, dupSent, tickSent>>

\* _tcp_accept_loop, lines 113-114: time.sleep(0.033), then the next tick.
TcpSleep ==
    /\ pcT = "sleep"
    /\ pcT' = "send"
    /\ UNCHANGED <<nonServerVars, envVars, srvVars, mainVars, callVars, httpVars, tAccepted, tconn,
                   lastSent, dupSent, tickSent>>

\* A TCP client connects to the listening port (listen(1): it waits in the
\* queue until accept() takes it).
TcpConnect(k) ==
    /\ tcp_socket = "listening"
    /\ tconn[k] = "idle"
    /\ IF k = 1 THEN TRUE ELSE tconn[k - 1] # "idle"
    /\ tconn' = [tconn EXCEPT ![k] = "pending"]
    /\ UNCHANGED <<nonServerVars, envVars, srvVars, mainVars, callVars, httpVars, pcT, tAccepted,
                   lastSent, dupSent, tickSent>>

\* An accepted TCP client closes its end.
TcpDisconnect(k) ==
    /\ tconn[k] = "open"
    /\ tconn' = [tconn EXCEPT ![k] = "peer_closed"]
    /\ UNCHANGED <<nonServerVars, envVars, srvVars, mainVars, callVars, httpVars, pcT, tAccepted,
                   lastSent, dupSent, tickSent>>

\* ----------------------------------------------------------- specification
OwnerStep == Start \/ UpdateBegin \/ UpdateRest \/ StopBegin

StopStep == StopWait \/ StopTcpClient \/ StopTcpSocket

HttpStep ==
    \/ HttpServeExit
    \/ \E c \in HttpClients : HttpDispatch(c)
    \/ SnapBody
    \/ StreamLoop
    \/ StreamHeader
    \/ StreamBody

TcpStep == TcpAccept \/ TcpAssign \/ TcpSend \/ TcpSleep

HttpClientStep ==
    \/ \E c \in HttpClients, p \in Paths : HttpConnect(c, p)
    \/ \E c \in HttpClients : HttpDisconnect(c)

TcpClientStep ==
    \/ \E k \in TcpConns : TcpConnect(k)
    \/ \E k \in TcpConns : TcpDisconnect(k)

\* The whole program with every client.  The specifications below are this
\* one in a narrower environment: no client at all, HTTP clients only, TCP
\* clients only.
Next == OwnerStep \/ StopStep \/ HttpStep \/ TcpStep \/ HttpClientStep \/ TcpClientStep

Spec == Init /\ [][Next]_vars

\* The program with no client of either kind: the owner's calls, with every
\* environment and every step of update_frame() able to raise.
OwnerNext == OwnerStep \/ StopStep \/ HttpServeExit \/ TcpAccept

OwnerSpec == Init /\ [][OwnerNext]_vars

\* The program with HTTP clients only, the HTTP port free and frames that
\* encode.
HttpInit ==
    /\ httpPortFree = TRUE
    /\ tcpPortFree \in BOOLEAN
    /\ use_virtual_cam = FALSE
    /\ camAvailable = FALSE
    /\ faultable = {}
    /\ ServerInit
    /\ ServerOnly

HttpNext == OwnerStep \/ StopStep \/ HttpStep \/ HttpClientStep \/ TcpAccept

HttpSpec == HttpInit /\ [][HttpNext]_vars

\* The program with TCP clients only, both ports free; the packet step may
\* raise.
TcpInit ==
    /\ httpPortFree = TRUE
    /\ tcpPortFree = TRUE
    /\ use_virtual_cam = FALSE
    /\ camAvailable = FALSE
    /\ faultable = {"packet"}
    /\ ServerInit
    /\ ServerOnly

TcpNext == OwnerStep \/ StopStep \/ HttpServeExit \/ TcpStep \/ TcpClientStep

TcpSpec == TcpInit /\ [][TcpNext]_vars

\* The threads of the process are scheduled: a thread that can take a step
\* takes one, and a stop() that has begun goes on.  Nothing makes the owner
\* call update_frame() or stop(), and nothing makes a client connect or
\* leave.
Threads == WF_vars(StopStep) /\ WF_vars(HttpStep) /\ WF_vars(TcpStep)

HttpFairSpec == HttpSpec /\ Threads

TcpFairSpec == TcpSpec /\ Threads

\* The two sinks side by side: one HTTP client and one TCP client, both
\* ports free, no stop(); the packet step may raise.
SinkNext ==
    \/ Start
    \/ UpdateBegin
    \/ UpdateRest
    \/ \E c \in HttpClients : HttpDispatch(c)
    \/ SnapBody
    \/ StreamLoop
    \/ StreamHeader
    \/ StreamBody
    \/ TcpStep
    \/ \E p \in Paths : HttpConnect(1, p)
    \/ \E c \in HttpClients : HttpDisconnect(c)
    \/ TcpConnect(1)
    \/ \E k \in TcpConns : TcpDisconnect(k)

SinkSpec == TcpInit /\ [][SinkNext]_vars

\* update_frame() on frames of many shapes: both ports free, no client, no
\* stop(); no step raises but for what the code itself computes.
UpdateShape == UpdateFrom(ShapeFrames)

PacketNext == Start \/ UpdateShape \/ UpdateRest \/ TcpAccept

PacketInit ==
    /\ httpPortFree = TRUE
    /\ tcpPortFree = TRUE
    /\ use_virtual_cam = FALSE
    /\ camAvailable = FALSE
    /\ faultable = {}
    /\ ServerInit
    /\ ServerOnly

PacketSpec == PacketInit /\ [][PacketNext]_vars

\* The program asked for a virtual camera, with one HTTP client: the HTTP
\* port free, the camera there or not, the push able to raise; no stop().
CamInit ==
    /\ httpPortFree = TRUE
    /\ tcpPortFree \in BOOLEAN
    /\ use_virtual_cam = TRUE
    /\ camAvailable \in BOOLEAN
    /\ faultable = {"cam"}
    /\ ServerInit
    /\ ServerOnly

CamNext ==
    \/ Start
    \/ UpdateBegin
    \/ UpdateRest
    \/ \E c \in HttpClients : HttpDispatch(c)
    \/ SnapBody
    \/ StreamLoop
    \/ StreamHeader
    \/ StreamBody
    \/ \E p \in Paths : HttpConnect(1, p)
    \/ \E c \in HttpClients : HttpDisconnect(c)
    \/ TcpAccept

CamSpec == CamInit /\ [][CamNext]_vars

\* The whole program with one HTTP client and one TCP client: both ports
\* free, the packet step may raise.
PairNext == SinkNext \/ StopBegin \/ StopStep \/ HttpServeExit

PairSpec == TcpInit /\ [][PairNext]_vars

TypeOK ==
    /\ server \in {"None", "up"}
    /\ http_socket \in {"None", "listening", "closed"}
    /\ tcp_socket \in {"None", "listening", "closed"}
    /\ tcp_client \in 0..MaxTcpConns
    /\ pcMain \in {"idle", "u_rest", "s_wait", "s_tcp_client", "s_tcp_socket"}
    /\ pcH \in {"not_started", "serve", "stream_loop", "stream_check", "stream_body", "snap_body", "exited"}
    /\ pcT \in {"not_started", "loop", "assign", "send", "sleep", "exited"}
    /\ frame_count \in 0..MaxUpdates

\* ------------------------------------------------------------------ claims
PublishedJpegs == {EncodeJpeg(f, n) : f \in Frames, n \in 1..nUpdates}

\* C1: every frame body sent over HTTP (a part of /stream, the body of
\* /frame.jpg) is one published JPEG and the Content-Length sent with it is
\* the length of that body, whatever update_frame() does meanwhile.
C1_ContentLengthIsBodyLength ==
    lastPart.body # NoFrame =>
        /\ lastPart.body \in PublishedJpegs
        /\ lastPart.cl = lastPart.body.len

\* C2: a request that waits at the HTTP server is answered, also while
\* another client's /stream is being served (until stop() is called).
C2_PendingRequestAnswered ==
    \A c \in HttpClients :
        (hc[c] = "pending") ~> (hc[c] # "pending" \/ nStops > 0)

\* C3: after a successful start(), a stop() that has been called returns,
\* whatever clients are connected.
C3_StopReturns ==
    (startState = "ok" /\ nStops > stopsReturned) ~> (stopsReturned = nStops)

UpdateReturned == nUpdates > 0 /\ pcMain # "u_rest"

\* C4: a step of update_frame() that raises neither keeps the other steps
\* of the call from running nor raises to the caller.
C4_StepsFaultIsolated ==
    (UpdateReturned /\ uFailed # {}) =>
        /\ ~uRaised
        /\ {"encode", "file", "packet"} \subseteq uRan
        /\ (CamStepRuns => "cam" \in uRan)

\* C5: whatever step of an update_frame() call fails, the published JPEG and
\* the published packet are each the value from before the call or the
\* complete new value, and a call in which nothing fails publishes both new
\* values, also after earlier calls failed.
C5_FailureKeepsPublishedStateWhole ==
    nUpdates > 0 =>
        /\ frame_bytes \in {uPrevJpeg, EncodeJpeg(uFrame, nUpdates)}
        /\ latest_frame_data \in {uPrevPacket, BuildPacket(uFrame, nUpdates)}
        /\ (UpdateReturned /\ uFailed = {}) =>
              /\ latest_frame_data = BuildPacket(uFrame, nUpdates)
              /\ ("publish" \in uRan => frame_bytes = EncodeJpeg(uFrame, nUpdates))

\* A call with a valid frame publishes both values after an earlier call
\* had a failing step.
C5_Witness ==
    /\ UpdateReturned
    /\ uEarlierFailed
    /\ uFailed = {}
    /\ "publish" \in uRan
    /\ frame_bytes = EncodeJpeg(uFrame, nUpdates)
    /\ latest_frame_data = BuildPacket(uFrame, nUpdates)

\* C6: with the HTTP port in use, start() does not raise and still starts
\* the TCP listener and the virtual camera.
C6_HttpBindFailureNotFatal ==
    (startState # "no" /\ ~httpPortFree) =>
        /\ startState = "ok"
        /\ (tcpPortFree => tcp_socket # "None" /\ pcT # "not_started")
        /\ (use_virtual_cam /\ camAvailable => virtual_cam # "None")

\* C7: with the TCP port in use, start() does not raise, tcp_socket is None
\* and stays None, the accept loop thread is never started, and the HTTP
\* server thread serves until stop() is called.
C7_TcpBindFailureDisablesTcpOnly ==
    (startState # "no" /\ ~tcpPortFree) =>
        /\ startState = "ok"
        /\ tcp_socket = "None"
        /\ pcT = "not_started"
        /\ tcp_client = 0
        /\ server = "up"
        /\ pcH # "not_started"
        /\ (pcH = "exited" => nStops > 0)

\* With the TCP port in use an HTTP client has been sent a frame.
C7_Witness ==
    /\ startState = "ok"
    /\ ~tcpPortFree
    /\ tcp_socket = "None"
    /\ lastPart.body # NoFrame

SendFails ==
    /\ pcT = "send"
    /\ latest_frame_data # NoPacket
    /\ tconn[tcp_client] # "open"
    /\ pcT' # pcT

\* C9: when a send to the active TCP client fails, the sink is back in the
\* accept loop and tcp_client is cleared.
C9_SendFailureClearsClient ==
    [][SendFails => (pcT' = "loop" /\ tcp_client' = 0)]_vars

\* The active TCP client has closed its end while the send loop runs.
ActiveClientGone ==
    /\ pcT \in {"send", "sleep"}
    /\ tconn[tcp_client] = "peer_closed"

\* C10: after the active TCP client disconnects, the sink goes back to
\* accepting (until stop() is called), also when no packet has been
\* published.
C10_DisconnectLeadsToAccepting ==
    ActiveClientGone ~> (pcT = "loop" \/ nStops > 0)

\* C11: once stop() has returned, the TCP thread (accept loop and send
\* loop) ends, whether it was waiting in accept(), sending to a client, or
\* connected to a client with no packet published.
C11_StopEndsTcpLoop ==
    (stopsReturned > 0 /\ pcT # "not_started") ~> (pcT = "exited")

\* C12: once stop() has returned, no accepted TCP connection is open,
\* however the call interleaves with the accept loop.
C12_NoOpenClientAfterStop ==
    stopsReturned > 0 => \A k \in TcpConns : tconn[k] # "open"

\* C13: once stop() has returned, the HTTP listening socket and the TCP
\* listening socket that start() opened are closed.
C13_ListeningSocketsClosed ==
    stopsReturned > 0 => (http_socket # "listening" /\ tcp_socket # "listening")

\* A step of the owner inside a stop() call.
StopCallStep ==
    \/ nStops' # nStops
    \/ pcMain \in {"s_wait", "s_tcp_client", "s_tcp_socket"} /\ pcMain' # pcMain

\* The fields stop() reads and the objects they name: the HTTP server and
\* its socket, the TCP listening socket, the client field, the camera.
StopTargets ==
    <<server, http_socket, is_shut_down, tcp_socket, tcp_client, virtual_cam,
      use_virtual_cam>>

Streaming == pcH \in {"stream_loop", "stream_check", "stream_body"}

\* C15: the /stream loop ends once its client has disconnected or stop()
\* has been called, also when no frame has been published.
C15_StreamLoopEnds ==
    (Streaming /\ (hc[hCur] = "gone" \/ nStops > 0)) ~> ~Streaming

\* A step of the owner inside an update_frame() call.
UpdateCallStep ==
    \/ nUpdates' # nUpdates
    \/ pcMain = "u_rest" /\ pcMain' # pcMain

\* C16: update_frame() never waits on a client and writes to none: each of
\* its steps can be taken whatever the HTTP handler, the send loop and the
\* clients are doing, and leaves the state of every connection as it was.
C16_UpdateNeverWaitsOnClient ==
    /\ [](pcMain = "u_rest" => ENABLED UpdateRest)
    /\ [](pcMain = "idle" /\ nStops = 0 /\ nUpdates < MaxUpdates => ENABLED UpdateBegin)
    /\ [][UpdateCallStep => UNCHANGED <<httpVars, tcpVars>>]_vars

\* An update_frame() call has published a new JPEG and a new packet and
\* returned while the handler was between the header and the body of a part
\* for a client that has gone, and the send loop had a client that has gone.
C16_Witness ==
    /\ pcH = "stream_body"
    /\ hc[hCur] = "gone"
    /\ hLen # frame_bytes.len
    /\ pcT \in {"send", "sleep"}
    /\ tconn[tcp_client] = "peer_closed"
    /\ lastSent[tcp_client] # latest_frame_data.id
    /\ latest_frame_data.id = nUpdates
    /\ UpdateReturned
    /\ pcMain = "idle"

\* C17: what a sink client is sent never goes back: the JPEG of each part
\* or snapshot written to the HTTP client, and the packet of each send to a
\* TCP client, is the one sent before or one published later.
C17_MonotoneFreshness ==
    [][/\ lastPart'.body.id >= lastPart.body.id
       /\ \A k \in TcpConns : lastSent'[k] >= lastSent[k]]_vars

\* Each client has been sent the second frame after something of the first:
\* the HTTP client the first JPEG's part header, the TCP client a packet
\* twice.
C17_Witness ==
    /\ nUpdates = 2
    /\ lastPart.body.id = 2
    /\ lastPart.cl # lastPart.body.len
    /\ lastSent[1] = 2
    /\ dupSent

\* Connections that accept() has returned and nobody has closed.
OpenTcp == {k \in TcpConns : tconn[k] = "open"}

\* C18: at most one accepted TCP connection is open at a time, and a
\* waiting connection is accepted only from the accept loop, with no other
\* connection open: never while the send loop runs for a client.
C18_OneTcpClientAtATime ==
    /\ [](Cardinality(OpenTcp) <= 1)
    /\ [][\A k \in TcpConns :
             (tconn[k] = "pending" /\ tconn'[k] = "open")
                 => (pcT = "loop" /\ OpenTcp = {})]_vars

\* A second connection waits while the first is being sent packets.
C18_Witness ==
    /\ pcT = "sleep"
    /\ tickSent
    /\ tconn[tcp_client] = "open"
    /\ \E k \in TcpConns : tconn[k] = "pending"

\* The JPEG most recently published to the server object (every
\* update_frame() call made after start() publishes when none raises).
LatestPublished ==
    IF "publish" \in uRan THEN EncodeJpeg(uFrame, nUpdates) ELSE NoFrame

\* C19: GET /frame.jpg is answered 404 exactly when no JPEG has been
\* published to the server, else 200, and the body then written is the
\* most recently published JPEG.
C19_SnapshotStatusAndBody ==
    /\ [][\A c \in HttpClients :
             (hc[c] = "pending" /\ hc'[c] # "pending" /\ hpath[c] = "/frame.jpg")
                 => hstatus'[c] = IF LatestPublished = NoFrame THEN 404 ELSE 200]_vars
    /\ [][(pcH = "snap_body" /\ pcH' # pcH /\ hc[hCur] = "active")
             => (lastPart'.body = LatestPublished /\ LatestPublished # NoFrame)]_vars

\* One /frame.jpg request was answered 404 (a frame had only been handed
\* to update_frame() before start()), a later one 200 with the published
\* JPEG.
C19_Witness ==
    \E c, d \in HttpClients :
        /\ hpath[c] = "/frame.jpg" /\ hstatus[c] = 404
        /\ hpath[d] = "/frame.jpg" /\ hstatus[d] = 200 /\ hc[d] = "answered"
        /\ nUpdates = 2
        /\ lastPart.body = LatestPublished
        /\ lastPart.body.id = 2

\* C20: for a frame within max_width x max_height, the packet update_frame()
\* publishes has the frame's width and height, plane count 3, type code 1
\* and width * height * 3 bytes of pixels.
C20_NeverUpscales ==
    (/\ UpdateReturned
     /\ uFailed = {}
     /\ uFrame.w <= max_width
     /\ uFrame.h <= max_height)
        => /\ latest_frame_data.id = nUpdates
           /\ latest_frame_data.width = uFrame.w
           /\ latest_frame_data.height = uFrame.h
           /\ latest_frame_data.planecount = 3
           /\ latest_frame_data.type_code = 1
           /\ latest_frame_data.data_len = uFrame.w * uFrame.h * 3
           /\ latest_frame_data.len = 24 + uFrame.w * uFrame.h * 3

\* A frame smaller than the bound in both directions was published as a
\* packet after a larger one.
C20_Witness ==
    /\ UpdateReturned
    /\ uFailed = {}
    /\ uFrame.w < max_width
    /\ uFrame.h < max_height
    /\ uFrame.w > 1
    /\ uPrevPacket # NoPacket
    /\ uPrevPacket.width = max_width
    /\ latest_frame_data.id = nUpdates
    /\ latest_frame_data.width = uFrame.w

\* The frame exceeds the bound in a direction: line 155 resizes it.
Oversize(f) == f.w > max_width \/ f.h > max_height

\* d is the shape f scaled by min(max_width / f.w, max_height / f.h), each
\* direction truncated by at most one pixel.
WithinOnePixel(f, d) ==
    LET wide == max_width * f.h <= max_height * f.w
        num == IF wide THEN max_width ELSE max_height
        den == IF wide THEN f.w ELSE f.h
    IN  /\ f.w * num - den <= d.w * den
        /\ d.w * den <= f.w * num
        /\ f.h * num - den <= d.h * den
        /\ d.h * den <= f.h * num

\* C21: for a frame that exceeds the bound, update_frame() publishes a
\* packet whose width and height are at least 1, within the bound, and in
\* the frame's ratio to one pixel of rounding.
C21_DownscaleKeepsAspect ==
    (UpdateReturned /\ ~uRaised /\ Oversize(uFrame))
        => /\ latest_frame_data.id = nUpdates
           /\ latest_frame_data.width >= 1
           /\ latest_frame_data.height >= 1
           /\ latest_frame_data.width <= max_width
           /\ latest_frame_data.height <= max_height
           /\ WithinOnePixel(uFrame, [w |-> latest_frame_data.width,
                                       h |-> latest_frame_data.height])

\* What a receiver reads: an int32 from four bytes, least significant first.
Unpack32(b) == b[1] + 256 * b[2] + 65536 * b[3] + 16777216 * b[4]

HeaderField(h, i) == Unpack32(SubSeq(h, 4 * i - 3, 4 * i))

\* The size of the message as a receiver computes it from the header.
MessageSize(h) ==
    PacketHeaderLen + HeaderField(h, 1)
        + HeaderField(h, 3) * HeaderField(h, 4) * HeaderField(h, 6)

\* C22: every published packet starts with the six little-endian int32
\* fields 0, 2, width, height, 1, 3, followed by width * height * 3 bytes
\* of pixels: 24 + width * height * 3 bytes in all, which is the size a
\* receiver computes from the header.
C22_PacketLayout ==
    latest_frame_data # NoPacket =>
        LET p == latest_frame_data
        IN  /\ Len(p.header) = 24
            /\ HeaderField(p.header, 1) = 0
            /\ HeaderField(p.header, 2) = 2
            /\ HeaderField(p.header, 3) = p.width
            /\ HeaderField(p.header, 4) = p.height
            /\ HeaderField(p.header, 5) = 1
            /\ HeaderField(p.header, 6) = 3
            /\ p.width >= 1
            /\ p.height >= 1
            /\ p.data_len = p.width * p.height * 3
            /\ p.len = 24 + p.width * p.height * 3
            /\ MessageSize(p.header) = p.len

\* A packet of a downscaled frame was published after one of a small frame.
C22_Witness ==
    /\ UpdateReturned
    /\ latest_frame_data.id = 2
    /\ uPrevPacket.id = 1
    /\ uPrevPacket.width < 256
    /\ uFrame = [w |-> 1280, h |-> 720]
    /\ latest_frame_data.width = 640
    /\ latest_frame_data.height = 360
    /\ latest_frame_data.len = 691224

\* C23: when the camera cannot be created in start(), start() returns, the
\* camera sink is off (use_virtual_cam False, no push attempted), the HTTP
\* thread and the TCP listener are started, and every later update_frame()
\* publishes its JPEG.
C23_CameraFailureDisablesCameraOnly ==
    /\ []((startState # "no" /\ ~camAvailable) =>
             /\ startState = "ok"
             /\ ~use_virtual_cam
             /\ virtual_cam = "None"
             /\ pcH # "not_started"
             /\ (tcpPortFree => tcp_socket = "listening" /\ pcT # "not_started"))
    /\ [][(startState = "ok" /\ ~camAvailable /\ nUpdates' # nUpdates)
             => frame_bytes' = EncodeJpeg(uFrame', nUpdates')]_vars
    /\ [][(startState = "ok" /\ ~camAvailable /\ UpdateCallStep)
             => "cam" \notin uRan']_vars

\* Without the camera the HTTP client has been sent the second frame and
\* the TCP listener is up.
C23_Witness ==
    /\ startState = "ok"
    /\ ~camAvailable
    /\ tcp_socket = "listening"
    /\ nUpdates = 2
    /\ lastPart.body = EncodeJpeg(uFrame, 2)
    /\ latest_frame_data.id = 2

\* C24: after a push to the virtual camera has failed in update_frame(),
\* the camera sink is off: later calls do not attempt the push.
C24_PushFailureDisablesCamera ==
    (UpdateReturned /\ "cam" \in uFailed) => ~CamStepRuns

\* C25: over any sequence of update_frame() calls a failing file write is
\* reported exactly once, at its first failure.
C25_FileFailureReportedOnce ==
    pcMain # "u_rest" => fileReports = (IF fileFails > 0 THEN 1 ELSE 0)

\* C27: update_frame() publishes its JPEG exactly when start() has created
\* the server: nothing is published before, /frame.jpg is answered 404
\* until a call made after start() has published, and every call builds
\* its packet and advances frame_count, started or not.
C27_PublishIffServerExists ==
    /\ [](server = "None" => frame_bytes = NoFrame)
    /\ [][nUpdates' # nUpdates
             => frame_bytes' = IF server = "up"
                               THEN EncodeJpeg(uFrame', nUpdates')
                               ELSE frame_bytes]_vars
    /\ [][(pcMain = "u_rest" /\ pcMain' = "idle")
             => /\ latest_frame_data' = BuildPacket(uFrame, nUpdates)
                /\ frame_count' = frame_count + 1]_vars
    /\ [][\A c \in HttpClients :
             (/\ hc[c] = "pending"
              /\ hc'[c] # "pending"
              /\ hpath[c] = "/frame.jpg"
              /\ "publish" \notin uRan)
                 => hstatus'[c] = 404]_vars

\* A frame was handed over before start(), /frame.jpg was then answered
\* 404, and the next call published its JPEG; both calls built a packet.
C27_Witness ==
    /\ \E c \in HttpClients : hpath[c] = "/frame.jpg" /\ hstatus[c] = 404
    /\ UpdateReturned
    /\ uPrevJpeg = NoFrame
    /\ uPrevPacket.id = 1
    /\ frame_bytes = EncodeJpeg(uFrame, 2)
    /\ latest_frame_data.id = 2
    /\ frame_count = 2

\* C28: tcp_client changes only where the accept loop stores the
\* connection accept() returned: no step of start(), update_frame(), stop()
\* or the HTTP handler changes it.
C28_ClientHandleSetByAcceptLoopOnly ==
    [][tcp_client' # tcp_client
          => (pcT = "assign" /\ pcT' = "send" /\ tcp_client' = tAccepted)]_vars

\* stop() has closed the client and returned, the field still names it; the
\* HTTP client was served and update_frame() was called meanwhile.
C28_Witness ==
    /\ stopsReturned > 0
    /\ tcp_client = 1
    /\ tconn[1] = "closed"
    /\ nUpdates > 0
    /\ lastPart.body # NoFrame

\* ---------------------------------------------------------------------------
\* motiontask.process_hand_data and main.send_action

MaxCalls == 11
MaxGestureCalls == 4
Horizon == 60

\* motiontask.py line 14: deque(maxlen=10); line 19: fewer than 5 samples.
history_maxlen == 10
min_samples == 5

\* The debounce intervals of lines 107, 124, 140 and 156, in tenths of a second.
swipe_interval == 25
left_interval == 15
right_interval == 15
both_interval == 20

Abs(x) == IF x < 0 THEN -x ELSE x

\* deque.append on a deque with maxlen: a full deque drops its oldest entry.
DequeAppend(q, p) ==
    IF Len(q) = history_maxlen THEN Append(Tail(q), p) ELSE Append(q, p)

\* detect_swipe looking for a swipe from the second sample on.
DetectSwipeFromTwo(hand_label, positions) ==
    IF Len(positions) < 2 THEN "None"
    ELSE LET start == positions[1]
             end == positions[Len(positions)]
             dx == end[1] - start[1]
             dy == end[2] - start[2]
         IN  IF 10 * Abs(dx) > 18 * Abs(dy)
             THEN IF hand_label = "Left" /\ start[1] < 45 /\ end[1] > 55 /\ dx > 25
                  THEN "right_track"
                  ELSE IF hand_label = "Right" /\ start[1] > 55 /\ end[1] < 45 /\ dx < -25
                       THEN "left_track"
                       ELSE "None"
             ELSE IF 10 * Abs(dy) > 20 * Abs(dx)
                  THEN IF dy < -22 THEN "up"
                       ELSE IF dy > 22 THEN "down" ELSE "None"
                  ELSE "None"

\* detect_swipe, lines 19-40, on the history after the append.  The
\* thresholds 0.45, 0.55, 0.25 and 0.22 are in hundredths, the ratios 1.8 and
\* 2.0 are multiplied out.
DetectSwipe(hand_label, positions) ==
    IF Len(positions) < min_samples THEN "None"
    ELSE LET start == positions[1]
             end == positions[Len(positions)]
             dx == end[1] - start[1]
             dy == end[2] - start[2]
         IN  IF 10 * Abs(dx) > 18 * Abs(dy)
             THEN IF hand_label = "Left" /\ start[1] < 45 /\ end[1] > 55 /\ dx > 25
                  THEN "right_track"
                  ELSE IF hand_label = "Right" /\ start[1] > 55 /\ end[1] < 45 /\ dx < -25
                       THEN "left_track"
                       ELSE "None"
             ELSE IF 10 * Abs(dy) > 20 * Abs(dx)
                  THEN IF dy < -22 THEN "up"
                       ELSE IF dy > 22 THEN "down" ELSE "None"
                  ELSE "None"

\* check_left_hand_gesture, lines 42-57: the first hand in the order of
\* hand_history that is labelled Left and whose stored gesture is a thumb.
RECURSIVE CheckLeftHandGesture(_, _, _)
CheckLeftHandGesture(order, labels, gestures) ==
    IF order = <<>> THEN "None"
    ELSE LET hand_id == Head(order)
             gesture_name == gestures[hand_id]
         IN  IF /\ labels[hand_id] = "Left"
                /\ gesture_name \in {"Thumb_Up", "Thumbs_Up"}
             THEN "up_scene"
             ELSE IF /\ labels[hand_id] = "Left"
                     /\ gesture_name \in {"Thumb_Down", "Thumbs_Down"}
                  THEN "down_scene"
                  ELSE CheckLeftHandGesture(Tail(order), labels, gestures)

\* check_right_hand_gesture, lines 59-74.
RECURSIVE CheckRightHandGesture(_, _, _)
CheckRightHandGesture(order, labels, gestures) ==
    IF order = <<>> THEN "None"
    ELSE LET hand_id == Head(order)
             gesture_name == gestures[hand_id]
         IN  IF labels[hand_id] = "Right" /\ gesture_name = "Victory"
             THEN "fire_clip"
             ELSE IF labels[hand_id] = "Right" /\ gesture_name = "Pointing_Up"
                  THEN "fire_scene"
                  ELSE CheckRightHandGesture(Tail(order), labels, gestures)

\* check_both_hands_holding, lines 76-88.
CheckBothHandsHolding(gestures) ==
    LET stored == {h \in HandIds : gestures[h] # NoGesture}
        holding == {h \in stored : gestures[h] \in {"Closed_Fist", "Open_Palm"}}
    IN  IF Cardinality(stored) < 2 THEN "None"
        ELSE IF Cardinality(holding) >= 2 THEN "master_track" ELSE "None"

\* The debounce test with ">=" in place of ">".
DueInclusive(last, current_time, interval) ==
    last = NoTime \/ current_time - last >= interval

\* The debounce test of lines 107, 124, 140 and 156: the key is not in
\* last_action_time, or more than the interval has passed.
Due(last, current_time, interval) ==
    last = NoTime \/ current_time - last > interval

\* main.send_action, lines 65-79: the OSC messages one action sends.
SendAction(action) ==
    IF action = "right_track" THEN <<[address |-> "/track/right", value |-> 0]>>
    ELSE IF action = "left_track" THEN <<[address |-> "/track/left", value |-> 1]>>
    ELSE IF action = "up_scene" THEN <<[address |-> "/scene/up", value |-> 2]>>
    ELSE IF action = "down_scene" THEN <<[address |-> "/scene/down", value |-> 3]>>
    ELSE IF action = "fire_clip" THEN <<[address |-> "/clip/fire", value |-> 4]>>
    ELSE IF action = "fire_scene" THEN <<[address |-> "/scene/fire", value |-> 5]>>
    ELSE IF action = "master_track" THEN <<[address |-> "/track/master", value |-> 6]>>
    ELSE <<>>

\* The overlay text an action puts into current_motion.
MotionText(action) ==
    CASE action = "right_track" -> "Select right track"
      [] action = "left_track" -> "Select left track"
      [] action = "up_scene" -> "Select up scene"
      [] action = "down_scene" -> "Select down scene"
      [] action = "fire_clip" -> "Fire/Stop Clip Slot"
      [] action = "fire_scene" -> "Fire/Stop Scene"
      [] action = "master_track" -> "Choose MasterTrack"

\* last_action_time.get(key, 0), lines 164-173.
GetOrZero(t) == IF t = NoTime THEN 0 ELSE t

\* The expiry test letting a label live one tick longer.
ExpiredLate(read_time, last, interval) ==
    read_time - GetOrZero(last) > interval + 1

\* The expiry test of lines 164, 167, 170 and 173.
Expired(read_time, last, interval) ==
    read_time - GetOrZero(last) > interval

\* One call of process_hand_data(d), lines 90-174, with osc_callback =
\* send_action.  time.time() returns now + dt at line 104.  The clock may
\* tick once during the call: of the four later reads (lines 164, 167, 170,
\* 173) and the return, in this order, the first `fresh` still see the value
\* of line 104 and the others one tick more.
ProcessFrom(D, A, L) ==
    \E d \in D, dt \in A, fresh \in L :
        LET hand_id == d.hand_id
            current_time == now + dt
            read(i) == IF i <= fresh THEN current_time ELSE current_time + 1
            \* lines 99-100
            gestures == IF d.gesture # NoGesture
                        THEN [hand_gestures EXCEPT ![hand_id] = d.gesture]
                        ELSE hand_gestures
            \* detect_swipe, lines 13-17
            order == IF \E i \in 1 .. Len(hand_order) : hand_order[i] = hand_id
                     THEN hand_order ELSE Append(hand_order, hand_id)
            labels == [hand_labels EXCEPT ![hand_id] = d.hand_label]
            positions == DequeAppend(hand_history[hand_id], d.palm)
            swipe == DetectSwipe(d.hand_label, positions)
            \* lines 106-120
            swipeActs == /\ swipe \in {"right_track", "left_track"}
                         /\ Due(last_action_time.hand[hand_id], current_time, swipe_interval)
            \* lines 122-161
            left_gesture == CheckLeftHandGesture(order, labels, gestures)
            leftActs == /\ left_gesture # "None"
                        /\ Due(last_action_time.left_gesture, current_time, left_interval)
            right_gesture == CheckRightHandGesture(order, labels, gestures)
            rightActs == /\ right_gesture # "None"
                         /\ Due(last_action_time.right_gesture, current_time, right_interval)
            both_holding == CheckBothHandsHolding(gestures)
            bothActs == /\ both_holding # "None"
                        /\ Due(last_action_time.both_holding, current_time, both_interval)
            calls == (IF swipeActs THEN <<[action |-> swipe, hand_id |-> hand_id]>> ELSE <<>>)
                     \o (IF leftActs THEN <<[action |-> left_gesture, hand_id |-> -1]>> ELSE <<>>)
                     \o (IF rightActs THEN <<[action |-> right_gesture, hand_id |-> -1]>> ELSE <<>>)
                     \o (IF bothActs THEN <<[action |-> both_holding, hand_id |-> -1]>> ELSE <<>>)
            times == [hand |-> IF swipeActs
                               THEN [last_action_time.hand EXCEPT ![hand_id] = current_time]
                               ELSE last_action_time.hand,
                      left_gesture |-> IF leftActs THEN current_time
                                       ELSE last_action_time.left_gesture,
                      right_gesture |-> IF rightActs THEN current_time
                                        ELSE last_action_time.right_gesture,
                      both_holding |-> IF bothActs THEN current_time
                                       ELSE last_action_time.both_holding]
            motion == [hand |-> IF swipeActs
                                THEN [current_motion.hand EXCEPT ![hand_id] = MotionText(swipe)]
                                ELSE current_motion.hand,
                       left |-> IF leftActs THEN MotionText(left_gesture)
                                ELSE current_motion.left,
                       right |-> IF rightActs THEN MotionText(right_gesture)
                                 ELSE current_motion.right,
                       both |-> IF bothActs THEN MotionText(both_holding)
                                ELSE current_motion.both]
            \* lines 163-174
            popHand == /\ motion.hand[hand_id] # NoMotion
                       /\ Expired(read(1), times.hand[hand_id], swipe_interval)
            popLeft == /\ motion.left # NoMotion
                       /\ Expired(read(2), times.left_gesture, left_interval)
            popRight == /\ motion.right # NoMotion
                        /\ Expired(read(3), times.right_gesture, right_interval)
            popBoth == /\ motion.both # NoMotion
                       /\ Expired(read(4), times.both_holding, both_interval)
            checked(present, i) == IF present THEN read(i) ELSE NoTime
            gap(acts, key) == IF acts /\ key # NoTime THEN current_time - key ELSE NoTime
        IN  /\ nCalls < MaxCalls
            /\ current_time <= Epoch + Horizon
            /\ nCalls' = nCalls + 1
            /\ data' = d
            /\ latest' = [latest EXCEPT ![hand_id] = d]
            /\ hand_gestures' = gestures
            /\ hand_order' = order
            /\ hand_labels' = labels
            /\ hand_history' = [hand_history EXCEPT
                                   ![hand_id] = IF swipeActs THEN <<>> ELSE positions]
            /\ last_action_time' = times
            /\ current_motion' =
                   [hand |-> IF popHand THEN [motion.hand EXCEPT ![hand_id] = NoMotion]
                             ELSE motion.hand,
                    left |-> IF popLeft THEN NoMotion ELSE motion.left,
                    right |-> IF popRight THEN NoMotion ELSE motion.right,
                    both |-> IF popBoth THEN NoMotion ELSE motion.both]
            /\ now' = read(5)
            /\ checkedAt' = [hand |-> [h \in HandIds |->
                                          checked(h = hand_id /\ motion.hand[h] # NoMotion, 1)],
                             left |-> checked(motion.left # NoMotion, 2),
                             right |-> checked(motion.right # NoMotion, 3),
                             both |-> checked(motion.both # NoMotion, 4)]
            /\ emitted' = calls
            /\ sent' = (IF swipeActs THEN SendAction(swipe) ELSE <<>>)
                       \o (IF leftActs THEN SendAction(left_gesture) ELSE <<>>)
                       \o (IF rightActs THEN SendAction(right_gesture) ELSE <<>>)
                       \o (IF bothActs THEN SendAction(both_holding) ELSE <<>>)
            /\ emitGap' = [hand |-> [h \in HandIds |->
                                        gap(swipeActs /\ h = hand_id, lastEmit.hand[h])],
                           left_gesture |-> gap(leftActs, lastEmit.left_gesture),
                           right_gesture |-> gap(rightActs, lastEmit.right_gesture),
                           both_holding |-> gap(bothActs, lastEmit.both_holding)]
            /\ sinceSwipe' = [sinceSwipe EXCEPT
                                 ![hand_id] = IF swipeActs THEN 0 ELSE @ + 1]
            /\ lastEmit' = [hand |-> [h \in HandIds |->
                                         IF swipeActs /\ h = hand_id THEN current_time
                                         ELSE lastEmit.hand[h]],
                            left_gesture |-> IF leftActs THEN current_time
                                             ELSE lastEmit.left_gesture,
                            right_gesture |-> IF rightActs THEN current_time
                                              ELSE lastEmit.right_gesture,
                            both_holding |-> IF bothActs THEN current_time
                                             ELSE lastEmit.both_holding]
            /\ UNCHANGED <<feed, nonMotionVars>>

\* The data GetMediaPipe.main (lines 129-144) hands to the callback: a hand
\* index, its handedness label, the palm position, and the recognised
\* gesture or none.
\* A hand moving across the frame while the recogniser reports nothing.
SwipeData ==
    [hand_id : {0}, hand_label : {"Left", "Right"},
     palm : {<<20, 50>>, <<80, 50>>}, gesture : {NoGesture}]

\* Two hands held still, the recogniser reporting a gesture or nothing.
GestureNames == {NoGesture, "Thumb_Up", "Victory", "Closed_Fist"}
GestureData ==
    [hand_id : {0}, hand_label : {"Left"}, palm : {<<50, 50>>}, gesture : GestureNames]
    \cup [hand_id : {1}, hand_label : {"Right"}, palm : {<<50, 50>>}, gesture : GestureNames]

\* Time between two calls: half a second, or 1.6 s.
Advances == {5, 16}

\* The clock does not tick between line 104 and the return.
SameTick == {5}

SwipeCall ==
    /\ feed = "moving"
    /\ ProcessFrom(SwipeData, Advances, SameTick)

GestureCall ==
    /\ feed = "posing"
    /\ nCalls < MaxGestureCalls
    /\ ProcessFrom(GestureData, Advances, SameTick)

\* The streaming server is not started; the camera loop delivers one of the
\* two kinds of hand data.
MotionStart ==
    /\ httpPortFree = TRUE
    /\ tcpPortFree = TRUE
    /\ use_virtual_cam = FALSE
    /\ camAvailable = FALSE
    /\ faultable = {}
    /\ ServerInit
    /\ ParticleIdle
    /\ ListInit
    /\ SmootherInit
    /\ StreamerIdle
    /\ MotionInit
    /\ feed \in {"moving", "posing"}

MotionNext == SwipeCall \/ GestureCall

MotionSpec == MotionStart /\ [][MotionNext]_vars

\* The hands whose stored gesture is one of the given names.
HandsShowing(names) == {h \in HandIds : hand_gestures[h] \in names}

\* The table documented in main.py, lines 51-61: the id of each action.
DocumentedId(action) ==
    CASE action = "right_track" -> 0
      [] action = "left_track" -> 1
      [] action = "up_scene" -> 2
      [] action = "down_scene" -> 3
      [] action = "fire_clip" -> 4
      [] action = "fire_scene" -> 5
      [] action = "master_track" -> 6
      [] OTHER -> -1

\* The table documented in main.py, lines 51-61: the motion of each action,
\* read on the call that emitted it.
DocumentedMotion(action) ==
    CASE action = "right_track" -> data.hand_label = "Right" /\ data.palm[1] < 50
      [] action = "left_track" -> data.hand_label = "Left" /\ data.palm[1] > 50
      [] action = "up_scene" ->
             \E h \in HandsShowing({"Thumb_Up"}) : hand_labels[h] = "Left"
      [] action = "down_scene" ->
             \E h \in HandsShowing({"Thumb_Down"}) : hand_labels[h] = "Left"
      [] action = "fire_clip" -> HandsShowing({"Victory"}) # {}
      [] action = "fire_scene" -> HandsShowing({"Pointing_Up"}) # {}
      [] action = "master_track" ->
             Cardinality(HandsShowing({"Closed_Fist", "Open_Palm"})) >= 2
      [] OTHER -> FALSE

\* C26: every action a process_hand_data() call emits is one of the seven
\* of the table in main.py, was triggered by the motion the table gives for
\* it (right track: the Right hand moving left; left track: the Left hand
\* moving right; ...), and went out as the OSC message with the table's id.
C26_GestureTable ==
    /\ Len(sent) = Len(emitted)
    /\ \A i \in 1 .. Len(emitted) :
           /\ DocumentedId(emitted[i].action) \in 0 .. 6
           /\ sent[i].value = DocumentedId(emitted[i].action)
           /\ DocumentedMotion(emitted[i].action)

\* C29: whenever a call emits an action for which an earlier action with
\* the same debounce key was emitted, the two are further apart than the
\* key's interval: 2.5 s for the track swipes of one hand id, 1.5 s for the
\* left-hand gestures, 1.5 s for the right-hand gestures, 2.0 s for
\* master_track.
C29_ActionDebounce ==
    /\ \A h \in HandIds : emitGap.hand[h] # NoTime => emitGap.hand[h] > swipe_interval
    /\ emitGap.left_gesture # NoTime => emitGap.left_gesture > left_interval
    /\ emitGap.right_gesture # NoTime => emitGap.right_gesture > right_interval
    /\ emitGap.both_holding # NoTime => emitGap.both_holding > both_interval

\* Hand 0 has just emitted its second track swipe, within the window in
\* which a gesture action would already be due again.
C29_Witness ==
    /\ Len(emitted) = 1
    /\ emitted[1].action \in {"right_track", "left_track"}
    /\ emitGap.hand[0] > swipe_interval
    /\ emitGap.hand[0] <= 2 * swipe_interval

\* The hands whose most recent data carried one of the given gestures.
HandsReporting(names) == {h \in HandIds : latest[h].gesture \in names}

\* The gesture action is accounted for by what the hands report now.
FollowsCurrentGesture(action) ==
    CASE action = "up_scene" ->
             \E h \in HandsReporting({"Thumb_Up", "Thumbs_Up"}) : latest[h].hand_label = "Left"
      [] action = "down_scene" ->
             \E h \in HandsReporting({"Thumb_Down", "Thumbs_Down"}) : latest[h].hand_label = "Left"
      [] action = "fire_clip" ->
             \E h \in HandsReporting({"Victory"}) : latest[h].hand_label = "Right"
      [] action = "fire_scene" ->
             \E h \in HandsReporting({"Pointing_Up"}) : latest[h].hand_label = "Right"
      [] action = "master_track" ->
             Cardinality(HandsReporting({"Closed_Fist", "Open_Palm"})) >= 2
      [] OTHER -> TRUE

\* C30: a gesture action (up_scene, down_scene, fire_clip, fire_scene,
\* master_track) is emitted only on account of gestures the hands currently
\* report: a hand whose most recent data had no gesture contributes none,
\* whatever it reported earlier.
C30_ActionsFollowCurrentGesture ==
    \A i \in 1 .. Len(emitted) : FollowsCurrentGesture(emitted[i].action)

\* The last call emitted a track-swipe action.
SwipeEmitted ==
    \E i \in 1 .. Len(emitted) : emitted[i].action \in {"right_track", "left_track"}

\* C31: a hand's history never holds more than 10 samples; a call emits a
\* track-swipe action only when the history, with the call's sample, holds
\* at least 5; the emitting call leaves that hand's history empty; and the
\* hand has delivered at least 5 samples since its previous track-swipe
\* action (or since the start).
C31_SwipeHistory ==
    /\ [](\A h \in HandIds : Len(hand_history[h]) <= history_maxlen)
    /\ [](SwipeEmitted => hand_history[data.hand_id] = <<>>)
    /\ [][(nCalls' # nCalls /\ SwipeEmitted')
             => /\ Len(hand_history[data'.hand_id]) + 1 >= min_samples
                /\ sinceSwipe[data'.hand_id] + 1 >= min_samples]_vars

\* Hand 0 has emitted its second swipe with its eleventh sample; the first
\* came no earlier than its fifth.
C31_Witness ==
    /\ SwipeEmitted
    /\ data.hand_id = 0
    /\ hand_history[0] = <<>>
    /\ sinceSwipe[0] = 0
    /\ emitGap.hand[0] # NoTime
    /\ nCalls = 11

MaxExpiryCalls == 6
MaxExpiryPoses == 3

\* The clock ticks between the last expiry test and the return, or not at
\* all during the call.
Ticks == {4, 5}

\* Time between two calls: 0.5 s, 1.5 s or 2.5 s.
ExpiryAdvances == {5, 15, 25}

\* Two hands held still: the Left hand shows a thumb, a fist or nothing the
\* recogniser knows, the Right hand a victory sign or a fist.
ExpiryData ==
    [hand_id : {0}, hand_label : {"Left"}, palm : {<<50, 50>>},
     gesture : {NoGesture, "Thumb_Up", "Closed_Fist"}]
    \cup [hand_id : {1}, hand_label : {"Right"}, palm : {<<50, 50>>},
          gesture : {"Victory", "Closed_Fist"}]

SwipeCallTicking ==
    /\ feed = "moving"
    /\ nCalls < MaxExpiryCalls
    /\ ProcessFrom(SwipeData, ExpiryAdvances, Ticks)

GestureCallTicking ==
    /\ feed = "posing"
    /\ nCalls < MaxExpiryPoses
    /\ ProcessFrom(ExpiryData, ExpiryAdvances, Ticks)

ExpiryNext == SwipeCallTicking \/ GestureCallTicking

ExpirySpec == MotionStart /\ [][ExpiryNext]_vars

\* The label is absent, or its action fired at most the interval before t.
FreshAt(label, fired, t, interval) ==
    label # NoMotion => (fired # NoTime /\ t # NoTime /\ t - fired <= interval)

\* C32 as stated: at the return of a call, by the clock at the return,
\* 'left' and 'right'
\* are in current_motion only if their action fired at most 1.5 s ago,
\* 'both' only if master_track fired at most 2.0 s ago, the key of the hand
\* just processed only if its track swipe fired at most 2.5 s ago.
C32_LabelsFreshAtReturn ==
    nCalls > 0 =>
        /\ FreshAt(current_motion.left, lastEmit.left_gesture, now, left_interval)
        /\ FreshAt(current_motion.right, lastEmit.right_gesture, now, right_interval)
        /\ FreshAt(current_motion.both, lastEmit.both_holding, now, both_interval)
        /\ FreshAt(current_motion.hand[data.hand_id], lastEmit.hand[data.hand_id],
                   now, swipe_interval)

\* C32, amended: at the return of a call, 'left', 'right', 'both' and the key of
\* the hand just processed are in current_motion only if their action fired
\* at most 1.5 s, 1.5 s, 2.0 s and 2.5 s before the time the call read for
\* the key's expiry test (lines 164, 167, 170, 173).
C32_LabelsFreshAtTest ==
    nCalls > 0 =>
        /\ FreshAt(current_motion.left, lastEmit.left_gesture,
                   checkedAt.left, left_interval)
        /\ FreshAt(current_motion.right, lastEmit.right_gesture,
                   checkedAt.right, right_interval)
        /\ FreshAt(current_motion.both, lastEmit.both_holding,
                   checkedAt.both, both_interval)
        /\ FreshAt(current_motion.hand[data.hand_id], lastEmit.hand[data.hand_id],
                   checkedAt.hand[data.hand_id], swipe_interval)

\* 'left' survived its test exactly 1.5 s after up_scene, and the clock had
\* moved on when the call returned.
C32_Witness ==
    /\ current_motion.left # NoMotion
    /\ checkedAt.left - lastEmit.left_gesture = left_interval
    /\ now > checkedAt.left
    /\ emitted = <<>>

\* ---------------------------------------------------------------------------
\* ParticleEffects: ParticleSystemServer.start(), the WebSocket server
\* thread and its event loop, and update_hand_data() on the producer thread.

\* A run in which the StreamingServer is not started.
ServerIdle ==
    /\ httpPortFree = TRUE
    /\ tcpPortFree = TRUE
    /\ use_virtual_cam = FALSE
    /\ camAvailable = FALSE
    /\ faultable = {}
    /\ ServerInit

\* ParticleEffects.py line 126.
max_wait == 10

\* The wait of lines 128-130 goes on after n sleeps: waited, n times 0.1
\* added up in floating point, is below max_wait.  The sum of 100 terms is
\* 9.99999999999998, so the wait takes 101 sleeps.
StillWaiting(n) == n <= max_wait * 10

\* ParticleSystemServer.start() line 179 and ParticleWebSocketHandler.start()
\* lines 123-127: the server thread is started.
PStartBegin ==
    /\ pcStart = "idle"
    /\ IF ~running
       THEN /\ pcWs' = "starting"
            /\ pcStart' = "waiting"
       ELSE /\ pcStart' = "http"
            /\ UNCHANGED pcWs
    /\ polls' = 0
    /\ UNCHANGED <<wsPortFree, pagePortFree, running, loop, clients, wsPeer, http_server,
                   pageFailureReported, pcUpd, nParticleUpdates, iterSize, iterDirty,
                   visited, updRaised>>
    /\ UNCHANGED nonParticleVars

\* run(), lines 117-120, and start_server(), lines 100-115, on the server
\* thread: the loop is created; websockets.serve binds the port and running
\* becomes True, or raises OSError and running is set to False.
WsServe ==
    /\ pcWs = "starting"
    /\ IF wsPortFree
       THEN /\ running' = TRUE
            /\ loop' = "running"
            /\ pcWs' = "serving"
       ELSE /\ running' = FALSE
            /\ loop' = "finished"
            /\ pcWs' = "failed"
    /\ UNCHANGED <<wsPortFree, pagePortFree, clients, wsPeer, pcStart, polls, http_server,
                   pageFailureReported, pcUpd, nParticleUpdates, iterSize, iterDirty,
                   visited, updRaised>>
    /\ UNCHANGED nonParticleVars

\* Lines 128-130: one sleep of the readiness wait.
PStartPoll ==
    /\ pcStart = "waiting"
    /\ ~running
    /\ StillWaiting(polls)
    /\ polls' = polls + 1
    /\ UNCHANGED <<wsPortFree, pagePortFree, running, loop, clients, pcWs, wsPeer, pcStart,
                   http_server, pageFailureReported, pcUpd, nParticleUpdates, iterSize,
                   iterDirty, visited, updRaised>>
    /\ UNCHANGED nonParticleVars

\* Lines 128 and 131-134: the wait ends, ready or timed out.
PStartWaited ==
    /\ pcStart = "waiting"
    /\ running \/ ~StillWaiting(polls)
    /\ pcStart' = "http"
    /\ UNCHANGED <<wsPortFree, pagePortFree, running, loop, clients, pcWs, wsPeer, polls,
                   http_server, pageFailureReported, pcUpd, nParticleUpdates, iterSize,
                   iterDirty, visited, updRaised>>
    /\ UNCHANGED nonParticleVars

\* PStartHttp with the HTTPServer constructor outside the try block.
PStartHttpUncaught ==
    /\ pcStart = "http"
    /\ IF pagePortFree
       THEN /\ http_server' = "up"
            /\ pcStart' = "done"
       ELSE /\ pcStart' = "raised"
            /\ UNCHANGED http_server
    /\ UNCHANGED <<wsPortFree, pagePortFree, running, loop, clients, pcWs, wsPeer, polls,
                   pageFailureReported, pcUpd, nParticleUpdates, iterSize, iterDirty,
                   visited, updRaised>>
    /\ UNCHANGED nonParticleVars

\* ParticleSystemServer.start(), lines 181-194: the page server is created
\* and its thread started, or the failure is caught and printed.
PStartHttp ==
    /\ pcStart = "http"
    /\ pcStart' = "done"
    /\ IF pagePortFree
       THEN /\ http_server' = "up"
            /\ UNCHANGED pageFailureReported
       ELSE /\ pageFailureReported' = TRUE
            /\ UNCHANGED http_server
    /\ UNCHANGED <<wsPortFree, pagePortFree, running, loop, clients, pcWs, wsPeer, polls,
                   pcUpd, nParticleUpdates, iterSize, iterDirty, visited, updRaised>>
    /\ UNCHANGED nonParticleVars

\* handle_client -> register_client, lines 17-21, on the event loop: a
\* browser has connected and is added to the set.
WsRegister(c) ==
    /\ pcWs = "serving"
    /\ wsPeer[c] = "idle"
    /\ wsPeer' = [wsPeer EXCEPT ![c] = "connected"]
    /\ clients' = clients \cup {c}
    /\ iterDirty' = (iterDirty \/ pcUpd = "iterating")
    /\ UNCHANGED <<wsPortFree, pagePortFree, running, loop, pcWs, pcStart, polls,
                   http_server, pageFailureReported, pcUpd, nParticleUpdates, iterSize,
                   visited, updRaised>>
    /\ UNCHANGED nonParticleVars

\* handle_client's finally -> unregister_client, lines 23-25, on the event
\* loop: the browser's connection has closed and it is discarded.
WsUnregister(c) ==
    /\ pcWs = "serving"
    /\ wsPeer[c] = "connected"
    /\ wsPeer' = [wsPeer EXCEPT ![c] = "closed"]
    /\ clients' = clients \ {c}
    /\ iterDirty' = (iterDirty \/ pcUpd = "iterating")
    /\ UNCHANGED <<wsPortFree, pagePortFree, running, loop, pcWs, pcStart, polls,
                   http_server, pageFailureReported, pcUpd, nParticleUpdates, iterSize,
                   visited, updRaised>>
    /\ UNCHANGED nonParticleVars

\* update_hand_data(), lines 46-87, on the producer thread: the message is
\* built and, with a client in the set and the loop there, the iteration of
\* the set begins.
PUpdateBegin ==
    /\ pcStart = "done"
    /\ pcUpd = "idle"
    /\ ~updRaised
    /\ nParticleUpdates < MaxParticleUpdates
    /\ nParticleUpdates' = nParticleUpdates + 1
    /\ IF clients # {} /\ loop # "absent"
       THEN /\ pcUpd' = "iterating"
            /\ iterSize' = Cardinality(clients)
       ELSE UNCHANGED <<pcUpd, iterSize>>
    /\ iterDirty' = FALSE
    /\ visited' = {}
    /\ UNCHANGED <<wsPortFree, pagePortFree, running, loop, clients, pcWs, wsPeer, pcStart,
                   polls, http_server, pageFailureReported, updRaised>>
    /\ UNCHANGED nonParticleVars

\* One step of "for client in self.clients", lines 87-98.  A set whose size
\* changed raises RuntimeError, outside the try of the loop body; a set that
\* was changed back to its size yields any of its elements or ends; an
\* untouched set yields its next element.  run_coroutine_threadsafe does not
\* raise while the loop is open, so nothing is discarded at line 98.
PUpdateNext ==
    /\ pcUpd = "iterating"
    /\ IF Cardinality(clients) # iterSize
       THEN /\ updRaised' = TRUE
            /\ pcUpd' = "idle"
            /\ UNCHANGED visited
       ELSE /\ UNCHANGED updRaised
            /\ \/ /\ \E c \in (IF iterDirty THEN clients ELSE clients \ visited) :
                         visited' = visited \cup {c}
                  /\ UNCHANGED pcUpd
               \/ /\ iterDirty \/ visited = clients
                  /\ pcUpd' = "idle"
                  /\ UNCHANGED visited
    /\ UNCHANGED <<wsPortFree, pagePortFree, running, loop, clients, pcWs, wsPeer, pcStart,
                   polls, http_server, pageFailureReported, nParticleUpdates, iterSize,
                   iterDirty>>
    /\ UNCHANGED nonParticleVars

\* The particle server in a process of its own: either port free or taken.
ParticleStart ==
    /\ ServerIdle
    /\ MotionIdle
    /\ ListInit
    /\ SmootherInit
    /\ StreamerIdle
    /\ ParticleInit
    /\ wsPortFree \in BOOLEAN
    /\ pagePortFree \in BOOLEAN

ParticleNext ==
    \/ PStartBegin
    \/ WsServe
    \/ PStartPoll
    \/ PStartWaited
    \/ PStartHttp
    \/ \E c \in WsClients : WsRegister(c) \/ WsUnregister(c)
    \/ PUpdateBegin
    \/ PUpdateNext

ParticleSpec == ParticleStart /\ [][ParticleNext]_vars

\* C33: while update_hand_data() iterates self.clients, no step of the
\* event loop adds a client to the set or removes one from it.
C33_NoChangeWhileIterating ==
    [][clients' # clients => pcUpd # "iterating"]_vars


\* start() runs on the main thread, which keeps running: each sleep returns and the
\* statements after the wait are executed.
ParticleFairSpec ==
    /\ ParticleSpec
    /\ WF_vars(PStartBegin)
    /\ WF_vars(PStartPoll)
    /\ WF_vars(PStartWaited)
    /\ WF_vars(PStartHttp)

\* What holds of start() at every moment: it has not raised, it has slept at most once
\* more than max_wait / 0.1 times, with the WebSocket port taken running is False once the
\* wait is over, and when it has returned the page server is up or its failure to bind
\* was reported.
StartSafe ==
    /\ pcStart # "raised"
    /\ polls <= max_wait * 10 + 1
    /\ (pcStart \in {"http", "done"} /\ ~wsPortFree) => ~running
    /\ pcStart = "done" =>
          /\ pagePortFree => http_server = "up"
          /\ ~pagePortFree => pageFailureReported /\ http_server # "up"
\* C36: ParticleSystemServer.start() always returns without raising; with the WebSocket
\* port in use the wait ends after a bounded number of polls with running still False,
\* the page server is still started, and a failure to bind the page port is caught and
\* reported.
C36_StartReturns ==
    /\ []StartSafe
    /\ (pcStart = "waiting") ~> (pcStart = "done")
\* start() has returned with both ports taken: the wait timed out after 101 sleeps and
\* the page server's failure was reported.
C36_Witness ==
    /\ pcStart = "done"
    /\ ~wsPortFree
    /\ ~pagePortFree
    /\ pcWs = "failed"
    /\ ~running
    /\ polls = max_wait * 10 + 1
    /\ pageFailureReported
\* start() has returned with the WebSocket port taken and the page server up.
C36_PageServerUp ==
    ~(pcStart = "done" /\ ~wsPortFree /\ ~running /\ http_server = "up")

\* ---------------------------------------------------------------------------
\* main.collect_hand_data_for_particles (main.py 95-129)
\* ---------------------------------------------------------------------------

MaxCollects == 5
\* main.py 123: timeout = 1.0, in tenths of a second.
timeout == 10
\* Time between two calls, in tenths of a second: 9, 10 and 11 are sums of these.
CollectAdvances == {3, 5}
\* The values a report carries (openness stands for the five copied fields, 104-108).
Openness == {0, 1}

\* main.py 112-119: replace the entry of the same hand_id, else append.
RECURSIVE ReplaceOrAppend(_, _)
ReplaceOrAppend(list, info) ==
    IF list = <<>> THEN <<info>>
    ELSE IF Head(list).hand_id = info.hand_id THEN <<info>> \o Tail(list)
    ELSE <<Head(list)>> \o ReplaceOrAppend(Tail(list), info)

KeepsLate(current_time, stamp) == current_time - stamp <= timeout
\* main.py 126: the condition of the comprehension.
Keeps(current_time, stamp) == current_time - stamp < timeout

\* main.py 124-127: the entries the comprehension keeps, in order.
RECURSIVE Recent(_, _, _)
Recent(list, stamps, current_time) ==
    IF list = <<>> THEN <<>>
    ELSE LET h == Head(list)
             stamp == IF stamps[h.hand_id] = NoTime THEN 0 ELSE stamps[h.hand_id]
             rest == Recent(Tail(list), stamps, current_time)
         IN  IF Keeps(current_time, stamp) THEN <<h>> \o rest ELSE rest

\* One call of collect_hand_data_for_particles, dt after the previous one.
CollectHandDataForParticles(id, o, dt) ==
    /\ nCollects < MaxCollects
    /\ ~lockHeld
    /\ LET current_time == collectNow + dt
           info == [hand_id |-> id, openness |-> o]
           stamps == [hand_data_timestamps EXCEPT ![id] = current_time]
           kept == Recent(ReplaceOrAppend(particle_hand_data_list, info), stamps, current_time)
       IN  /\ collectNow' = current_time
           /\ hand_info' = info
           /\ hand_data_timestamps' = stamps
           /\ particle_hand_data_list' = kept
           \* line 129, inside the with block
           /\ handedList' = kept
           /\ handedUnderLock' = TRUE
           /\ lastReport' = [lastReport EXCEPT ![id] = current_time]
    /\ lockHeld' = FALSE
    /\ nCollects' = nCollects + 1
    /\ UNCHANGED nonListVars

ListStart == ServerIdle /\ MotionIdle /\ ParticleIdle /\ SmootherInit /\ StreamerIdle /\ ListInit
ListNext == \E id \in HandIds, o \in Openness, dt \in CollectAdvances :
                CollectHandDataForParticles(id, o, dt)
ListSpec == ListStart /\ [][ListNext]_vars

\* C34: after every call the list holds at most one entry per hand_id, holds the entry
\* just built for the reported hand, and holds no entry of a hand whose last report is
\* 1.0 s or more before the call's current_time; the list handed to the particle server
\* equals the list as it stands, and was copied while the lock was held.
C34_ListAfterCollect ==
    nCollects > 0 =>
        LET list == particle_hand_data_list
            idx == 1 .. Len(list)
        IN  /\ \A i, j \in idx : list[i].hand_id = list[j].hand_id => i = j
            /\ \E i \in idx : list[i] = hand_info
            /\ \A i \in idx : /\ lastReport[list[i].hand_id] # NoTime
                              /\ collectNow - lastReport[list[i].hand_id] < timeout
            /\ handedList = list
            /\ handedUnderLock
            /\ ~lockHeld
\* Hand 0 was reported 0.9 s before the call for hand 1 and is kept beside it; hand 0
\* had been reported twice, the second time with another value.
C34_Witness ==
    /\ nCollects = 5
    /\ Len(particle_hand_data_list) = 2
    /\ particle_hand_data_list[1] = [hand_id |-> 0, openness |-> 1]
    /\ hand_info.hand_id = 1
    /\ collectNow - lastReport[0] = 9
\* A hand last reported exactly 1.0 s before the call has been removed.
C34_Removed ==
    ~(/\ nCollects > 1
      /\ Len(particle_hand_data_list) = 1
      /\ \E h \in HandIds : lastReport[h] # NoTime /\ collectNow - lastReport[h] = timeout)


\* ---------------------------------------------------------------------------
\* main.CoordinateSmoother (main.py 8-46), the instance person_coord_smoother
\* ---------------------------------------------------------------------------

MaxSmooths == 4
\* main.py 49: alpha = 0.25 = alpha_num / alpha_den, min_change_threshold = 0.02 =
\* 1 / threshold_inverse.
alpha_num == 1
alpha_den == 4
threshold_inverse == 50
\* Coordinates are binary fractions, counted in units of 1 / Unit: inputs are multiples of
\* 1/64 and every moving average divides by alpha_den once, so that the double arithmetic
\* of the code is exact on them and the integer arithmetic below is the same arithmetic.
InputGrain == 64
Unit == InputGrain * alpha_den ^ (MaxSmooths - 1)
Coordinate(k) == k * (Unit \div InputGrain)
Points == {<<Coordinate(x), Coordinate(y), Coordinate(z)>> : x \in 0 .. 2, y \in 0 .. 1, z \in 0 .. 1}

\* main.py 33-36: the square of change_magnitude.
MagnitudeSquared(p, q) ==
    LET dx == Abs(p[1] - q[1])
        dy == Abs(p[2] - q[2])
        dz == Abs(p[3] - q[3])
    IN  dx * dx + dy * dy + dz * dz
\* main.py 39: change_magnitude < min_change_threshold.  The squared magnitude is a whole
\* number of units and Unit^2 / threshold_inverse^2 is not, so the comparison of the
\* magnitudes is the comparison of the squares, rounded down.
BelowThreshold(p, q) ==
    MagnitudeSquared(p, q) <= (Unit * Unit) \div (threshold_inverse * threshold_inverse)

EmaSwapped(x, s) == (alpha_num * s + (alpha_den - alpha_num) * x) \div alpha_den
\* main.py 43-45: alpha * x + (1 - alpha) * smoothed, one coordinate.
Ema(x, s) == (alpha_num * x + (alpha_den - alpha_num) * s) \div alpha_den

\* One call of person_coord_smoother.smooth(x, y, z).
Smooth(p) ==
    /\ nSmooths < MaxSmooths
    /\ nSmooths' = nSmooths + 1
    /\ smoothIn' = p
    /\ IF ~initialized
       THEN /\ smoothed' = p
            /\ initialized' = TRUE
            /\ smoothOut' = p
       ELSE IF BelowThreshold(p, smoothed)
       THEN /\ smoothOut' = smoothed
            /\ UNCHANGED <<smoothed, initialized>>
       ELSE LET moved == [i \in 1 .. 3 |-> Ema(p[i], smoothed[i])]
            IN  /\ smoothed' = moved
                /\ smoothOut' = moved
                /\ UNCHANGED initialized
    /\ UNCHANGED nonSmoothVars

SmoothStart == ServerIdle /\ MotionIdle /\ ParticleIdle /\ ListInit /\ StreamerIdle /\ SmootherInit
SmoothNext == \E p \in Points : Smooth(p)
SmoothSpec == SmoothStart /\ [][SmoothNext]_vars

\* Euclidean distance below 0.02, by exact arithmetic on the fractions.
Nearer(p, q) ==
    LET d == [i \in 1 .. 3 |-> p[i] - q[i]]
    IN  threshold_inverse * threshold_inverse * (d[1] * d[1] + d[2] * d[2] + d[3] * d[3])
            < Unit * Unit
\* C37: the first smooth() call returns its input unchanged and stores it; a later call
\* whose input is nearer than min_change_threshold to the stored point leaves the stored
\* state unchanged and returns the stored point; any other call moves the stored point
\* to alpha * input + (1 - alpha) * stored.
C37_SmoothStep ==
    [][nSmooths' # nSmooths =>
          IF ~initialized
          THEN smoothOut' = smoothIn' /\ smoothed' = smoothIn' /\ initialized'
          ELSE IF Nearer(smoothIn', smoothed)
          THEN smoothed' = smoothed /\ initialized' /\ smoothOut' = smoothed
          ELSE /\ initialized'
               /\ \A i \in 1 .. 3 :
                      alpha_den * smoothed'[i]
                          = alpha_num * smoothIn'[i] + (alpha_den - alpha_num) * smoothed[i]
      ]_vars
\* The stored point has moved twice and the last call, nearer than the threshold to it
\* but not equal to it, was answered with the stored point.
C37_Witness ==
    /\ nSmooths = 4
    /\ smoothed \notin Points
    /\ smoothOut = smoothed
    /\ smoothIn # smoothed
    /\ \E i \in 1 .. 3 : smoothed[i] % (Unit \div (InputGrain * alpha_den)) # 0


\* ---------------------------------------------------------------------------
\* MaxShowDepth.OAKDepthStreamer (MaxShowDepth.py 207-283): the owner thread of
\* the StreamingServer of that file, which is the class modelled above.
\* ---------------------------------------------------------------------------

\* start(), lines 216-218: viewer.start() is called; start() returns False,
\* and run() returns (lines 228-229), when it fails.
ViewerStart ==
    /\ pcRun = "idle"
    /\ IF viewerStarts
       THEN /\ viewerStarted' = "ok"
            /\ pcRun' = "server_start"
            /\ UNCHANGED startReturned
       ELSE /\ viewerStarted' = "failed"
            /\ startReturned' = "false"
            /\ pcRun' = "returned"
    /\ UNCHANGED <<viewerStarts, streamerRunning, leftBy>>
    /\ UNCHANGED nonDepthVars

\* start(), line 220: self.streaming_server.start().
StreamerServerStart ==
    /\ pcRun = "server_start"
    /\ Start

\* start(), lines 221-224, and run(), line 231: running is set, start() returns
\* True and run() enters its try block; or the exception of
\* streaming_server.start() leaves start() and run().
StreamerStarted ==
    /\ pcRun = "server_start"
    /\ startState # "no"
    /\ IF startState = "ok"
       THEN /\ streamerRunning' = TRUE
            /\ startReturned' = "true"
            /\ pcRun' = "loop"
       ELSE /\ pcRun' = "raised"
            /\ UNCHANGED <<streamerRunning, startReturned>>
    /\ UNCHANGED <<viewerStarts, viewerStarted, leftBy>>
    /\ UNCHANGED nonDepthVars

\* run(), lines 232-269: one frame is taken, drawn and handed to update_frame().
StreamerUpdate ==
    /\ pcRun = "loop"
    /\ streamerRunning
    /\ ~uRaised
    /\ UpdateBegin

\* update_frame(), the steps after the JPEG was published.
StreamerUpdateRest ==
    /\ pcRun = "loop"
    /\ UpdateRest

\* LeaveLoop with "except Exception: raise" in place of the finally clause:
\* only the interrupt calls stop().
LeaveLoopInterruptOnly(how) ==
    /\ pcRun = "loop"
    /\ pcMain = "idle"
    /\ uRaised => how = "exception"
    /\ leftBy' = how
    /\ pcRun' = IF how = "interrupt" THEN "finally" ELSE "raised"
    /\ UNCHANGED <<viewerStarts, viewerStarted, streamerRunning, startReturned>>
    /\ UNCHANGED nonDepthVars

\* run(), lines 273-276: Ctrl+C arrives or a statement of the loop raises (the
\* queue, OpenCV, or update_frame() when the JPEG encoder fails); the interrupt
\* is printed, and either way control passes to the finally clause.
LeaveLoop(how) ==
    /\ pcRun = "loop"
    /\ pcMain = "idle"
    /\ uRaised => how = "exception"
    /\ leftBy' = how
    /\ pcRun' = "finally"
    /\ UNCHANGED <<viewerStarts, viewerStarted, streamerRunning, startReturned>>
    /\ UNCHANGED nonDepthVars

\* stop(), line 280: self.running = False.
StreamerStop ==
    /\ pcRun = "finally"
    /\ streamerRunning' = FALSE
    /\ pcRun' = "stopping"
    /\ UNCHANGED <<viewerStarts, viewerStarted, startReturned, leftBy>>
    /\ UNCHANGED nonDepthVars

\* stop(), line 281: self.streaming_server.stop() is called.
StreamerServerStop ==
    /\ pcRun = "stopping"
    /\ nStops = 0
    /\ StopBegin

\* stop(), lines 282-283, after streaming_server.stop() has returned: the
\* calculator is closed and run() returns, or the exception that ended the
\* loop goes on to the caller.
StreamerStopped ==
    /\ pcRun = "stopping"
    /\ stopsReturned > 0
    /\ pcRun' = IF leftBy = "exception" THEN "raised" ELSE "returned"
    /\ UNCHANGED <<viewerStarts, viewerStarted, streamerRunning, startReturned, leftBy>>
    /\ UNCHANGED nonDepthVars

\* The process of MaxShowDepth.py: the OAK device is there or not, either port
\* free or taken, no virtual camera (line 291), a JPEG encoder that may fail.
StreamerStart ==
    /\ httpPortFree \in BOOLEAN
    /\ tcpPortFree \in BOOLEAN
    /\ use_virtual_cam = FALSE
    /\ camAvailable = FALSE
    /\ faultable = {"encode"}
    /\ ServerInit
    /\ MotionIdle
    /\ ParticleIdle
    /\ ListInit
    /\ SmootherInit
    /\ StreamerInit
    /\ viewerStarts \in BOOLEAN

StreamerNext ==
    \/ ViewerStart
    \/ StreamerServerStart
    \/ StreamerStarted
    \/ StreamerUpdate
    \/ StreamerUpdateRest
    \/ \E how \in {"interrupt", "exception"} : LeaveLoop(how)
    \/ StreamerStop
    \/ StreamerServerStop
    \/ StopStep
    \/ StreamerStopped
    \/ HttpStep
    \/ HttpClientStep
    \/ TcpAccept

StreamerSpec == StreamerStart /\ [][StreamerNext]_vars

\* run() has left its frame loop after start() returned True.
LeftLoop == startReturned = "true" /\ pcRun \in {"finally", "stopping", "returned", "raised"}
\* C35: the StreamingServer is started only after viewer.start() succeeded, and when
\* viewer.start() failed start() returned False and run() returned with the server not
\* started; once run() has left its frame loop after a successful start, by interrupt
\* or by exception, it goes through stop(): running is set to False, then
\* streaming_server.stop() is called, and when run() is left that call has returned, the
\* HTTP server has left serve_forever and the TCP listening socket is closed.
C35_StreamerLifecycle ==
    /\ [](startState # "no" => viewerStarted = "ok")
    /\ [](viewerStarted = "failed" =>
              /\ pcRun = "returned"
              /\ startReturned = "false"
              /\ startState = "no"
              /\ server = "None"
              /\ ~streamerRunning)
    /\ [](LeftLoop /\ pcRun # "finally" => ~streamerRunning)
    /\ [](LeftLoop /\ pcRun \in {"returned", "raised"} =>
              /\ nStops > 0
              /\ stopsReturned > 0
              /\ pcH = "exited"
              /\ tcp_socket \in {"None", "closed"})
    /\ [][(pcRun = "loop" /\ pcRun' # "loop") =>
              (pcRun' = "finally" /\ leftBy' \in {"interrupt", "exception"})]_vars
    /\ [][(pcRun = "finally" /\ pcRun' # "finally") =>
              (pcRun' = "stopping" /\ ~streamerRunning')]_vars
\* update_frame() raised in the second frame, run() stopped the server and the
\* exception went on to the caller.
C35_Witness ==
    /\ pcRun = "raised"
    /\ startReturned = "true"
    /\ leftBy = "exception"
    /\ uRaised
    /\ nUpdates = 2
    /\ stopsReturned = 1
    /\ ~streamerRunning
\* The OAK device is missing: run() has returned and nothing was started.
C35_NoDevice ==
    ~(viewerStarted = "failed" /\ pcRun = "returned" /\ startState = "no")
\* streaming_server.stop() waits for a /stream client and has not returned.
C35_StopWaiting ==
    ~(pcRun = "stopping" /\ pcMain = "s_wait" /\ pcH # "serve" /\ pcH # "exited")

====
